---- MODULE Spec2Model ----
(***************************************************************************)
(* A model of spec-tree's URL checker (src/spectree/spec_url_check.py).    *)
(*                                                                         *)
(* A URL is a sequence of one-character strings, so that URL_MATCH_RE, the *)
(* lower-casing of the scheme, Python's lexicographic list.sort() and the  *)
(* trailing-slash test are computed on the characters, as the code does.   *)
(* A status map (dict[str, UrlStatus]) is a function whose domain is a set *)
(* of URLs.  Times are integers in microseconds; Python computes them in   *)
(* floating point, and for every six-decimal text curl prints the float    *)
(* comparisons of lines 478 and 486 agree with the integer ones used here. *)
(*                                                                         *)
(* The last part models the package check of the version-mismatch checker  *)
(* (src/spectree/spec_rpm_mismatch.py) on the same variables: there result *)
(* is the ResultCollection, tree gives the name stub rpmspec prints for    *)
(* each local package, and env the server's packages and the CPU count.    *)
(***************************************************************************)
EXTENDS Integers, Sequences, FiniteSets, Bags, TLC

VARIABLES
    pc,             \* position of main(): line 600 .. 636
    skip_url_check, \* args.skip_url_check
    tree,           \* the spec tree: what rpmspec and spectool print per package
    todo,           \* the packages process_packages has not processed yet
    result,         \* proc.result, the list of UrlResult records
    checked_urls,   \* main's checked_urls dict
    cpc,            \* position of check_urls: "idle", "called", "processing"
    urls,           \* argument of check_urls, in the order it is iterated
    redirect,       \* argument of check_urls / process_urls / check_url_batch
    batches,        \* the list of batches check_urls hands to process_urls
    ppc,            \* position of process_urls
    futures,        \* the futures of the executor, in submission order
    url_results,    \* process_urls's accumulating dict
    env,            \* what the network and the installed curl may answer
    probes          \* the curl commands run so far (os.popen, line 461)

mainVars == <<pc, skip_url_check, tree, todo, result, checked_urls>>

vars == <<mainVars, cpc, urls, redirect, batches, ppc, futures, url_results,
          env, probes>>

----------------------------------------------------------------------------
(* Characters and strings *)

\* The characters the model's URLs and RPM names use, in code-point order (Python compares
\* str values by code point).
CodePoints ==
    <<"+", "-", ".", "/", "0", "1", "2", "3", "4", "5", "6", "7", "8", "9",
      ":", "F", "H", "P", "S", "T", "_",
      "a", "b", "c", "d", "e", "f", "g", "h", "i", "l", "m", "n", "o", "p",
      "r", "s", "t", "v", "x", "{", "}">>

Ord(c) == CHOOSE i \in 1..Len(CodePoints) : CodePoints[i] = c

\* str.lower() on the characters above
lower_char(c) ==
    CASE c = "F" -> "f"
      [] c = "H" -> "h"
      [] c = "P" -> "p"
      [] c = "S" -> "s"
      [] c = "T" -> "t"
      [] OTHER -> c

lower(s) == [i \in 1..Len(s) |-> lower_char(s[i])]

\* Python's s < t on str: the first differing character decides, a proper
\* prefix is smaller.
RECURSIVE StrLess(_, _)
StrLess(s, t) ==
    IF t = <<>> THEN FALSE
    ELSE IF s = <<>> THEN TRUE
    ELSE IF Head(s) = Head(t) THEN StrLess(Tail(s), Tail(t))
    ELSE Ord(Head(s)) < Ord(Head(t))

\* A mutant of sort: the list is left in the order it has.
sort_as_given(l) == l

\* list.sort() on a list of str: l[i] goes to the place given by the number
\* of elements that come before it (the sort is stable)
sort(l) ==
    LET n == Len(l)
        before(j, i) == StrLess(l[j], l[i]) \/ (l[j] = l[i] /\ j < i)
        place == [i \in 1..n |->
                     Cardinality({j \in 1..n : before(j, i)}) + 1]
    IN  [k \in 1..n |-> l[CHOOSE i \in 1..n : place[i] = k]]

----------------------------------------------------------------------------
(* URL_MATCH_RE = re.compile(r'([-+.a-zA-Z0-9]+)://') *)

SchemeChars ==
    {"-", "+", ".", "0", "1", "2", "3", "4", "5", "6", "7", "8", "9",
     "F", "H", "P", "S", "T",
     "a", "b", "c", "d", "e", "f", "g", "h", "i", "l", "m", "o", "p", "s",
     "t", "v", "x"}

\* Length of the longest prefix of url made of scheme characters.  ':' is no
\* scheme character, so the greedy group can only end there.
RECURSIVE SchemeLen(_)
SchemeLen(url) ==
    IF url # <<>> /\ Head(url) \in SchemeChars THEN 1 + SchemeLen(Tail(url))
    ELSE 0

\* URL_MATCH_RE.match(url) is not None
URL_MATCH_RE(url) ==
    LET n == SchemeLen(url)
    IN  /\ n >= 1
        /\ Len(url) >= n + 3
        /\ SubSeq(url, n + 1, n + 3) = <<":", "/", "/">>

\* URL_MATCH_RE.match(url).group(1)
group1(url) == SubSeq(url, 1, SchemeLen(url))

----------------------------------------------------------------------------
(* Program constants *)

PARALLEL_URL_THREADS == 5
URL_BATCHES == 20
URL_BATCHES_MIN == 3
URL_TIMEOUT == 7
URL_TIMEOUT_REDIRECT == 25

UrlStatus ==
    {"UNCHECKED", "UNSUPPORTED", "VALID", "REDIRECT", "BAD_HOST",
     "BAD_CERTIFICATE", "NOT_FOUND", "AUTHENTICATE", "TIMEOUT",
     "TEMPORARY_ERR"}

----------------------------------------------------------------------------
(* status_from_response_code *)

\* A mutant of http_status: the 4xx range is tested before the rate-limiting
\* and authentication codes.
http_status_range_first(response_code) ==
    IF 200 <= response_code /\ response_code < 300 THEN "VALID"
    ELSE IF 300 <= response_code /\ response_code < 400 THEN "REDIRECT"
    ELSE IF 400 <= response_code /\ response_code < 500 THEN "NOT_FOUND"
    ELSE IF response_code \in {423, 429} THEN "TEMPORARY_ERR"
    ELSE IF response_code \in {401, 402, 403} THEN "AUTHENTICATE"
    ELSE IF 500 <= response_code /\ response_code < 600 THEN "TEMPORARY_ERR"
    ELSE "UNSUPPORTED"

\* Lines 385-398: the http and https branch
http_status(response_code) ==
    IF 200 <= response_code /\ response_code < 300 THEN "VALID"
    ELSE IF response_code \in {423, 429} THEN "TEMPORARY_ERR"
    ELSE IF response_code \in {401, 402, 403} THEN "AUTHENTICATE"
    ELSE IF 300 <= response_code /\ response_code < 400 THEN "REDIRECT"
    ELSE IF 400 <= response_code /\ response_code < 500 THEN "NOT_FOUND"
    ELSE IF 500 <= response_code /\ response_code < 600 THEN "TEMPORARY_ERR"
    ELSE "UNSUPPORTED"

\* A mutant of ftp_status: the 4xx and 5xx ranges are tested before the
\* authentication codes.
ftp_status_range_first(response_code) ==
    IF response_code \in {250, 257, 350} THEN "VALID"
    ELSE IF response_code \in {221, 230} THEN "TEMPORARY_ERR"
    ELSE IF 400 <= response_code /\ response_code < 500 THEN "TEMPORARY_ERR"
    ELSE IF 500 <= response_code /\ response_code < 600 THEN "NOT_FOUND"
    ELSE IF response_code \in {530, 430} THEN "AUTHENTICATE"
    ELSE "UNSUPPORTED"

\* Lines 400-412: the ftp and ftps branch
ftp_status(response_code) ==
    IF response_code \in {250, 257, 350} THEN "VALID"
    ELSE IF response_code \in {530, 430} THEN "AUTHENTICATE"
    ELSE IF response_code \in {221, 230} THEN "TEMPORARY_ERR"
    ELSE IF 400 <= response_code /\ response_code < 500 THEN "TEMPORARY_ERR"
    ELSE IF 500 <= response_code /\ response_code < 600 THEN "NOT_FOUND"
    ELSE "UNSUPPORTED"

\* A mutant of status_from_response_code: the http table for every scheme.
status_from_http_code(response_code, url) == http_status(response_code)

status_from_response_code(response_code, url) ==
    LET scheme == lower(group1(url))
    IN  IF scheme \in {<<"h","t","t","p">>, <<"h","t","t","p","s">>}
        THEN http_status(response_code)
        ELSE IF scheme \in {<<"f","t","p">>, <<"f","t","p","s">>}
        THEN ftp_status(response_code)
        ELSE "UNSUPPORTED"

----------------------------------------------------------------------------
(* check_url_batch *)

\* The probe's answer for one URL: the numbers of one --write-out line.  A
\* time field holds the integer k its text stands for once the decimal point
\* is dropped: curl prints seconds with six decimals (the text is k / 10^6),
\* and curl 7.74.0 prints whole microseconds (the text is k).
OutcomeLine(rc, ssl, tc, tt, nc) ==
    [response_code |-> rc, ssl_verify_result |-> ssl, time_connect |-> tc,
     time_total |-> tt, num_connects |-> nc]

\* A mutant of get_curl_timeout_factor: the version is not looked at.
get_curl_timeout_factor_fixed(version) == 1

get_curl_timeout_factor(version) ==
    IF version = "7.74.0" THEN 1 ELSE 1000000

\* 10^(number of decimals curl prints in a time field), by curl version
TextDivisor(version) ==
    IF version = "7.74.0" THEN 1 ELSE 1000000

\* int(float(text) * timeout_factor), the text being k / TextDivisor.  Both
\* numbers are powers of ten, so k * factor / divisor is computed without the
\* large product (Python's numbers do not overflow; TLC's do).
parse_time(k, version) ==
    LET factor == get_curl_timeout_factor(version)
        divisor == TextDivisor(version)
    IN  IF factor >= divisor THEN k * (factor \div divisor)
        ELSE k \div (divisor \div factor)

\* A mutant of line_status: the response code is looked at before the
\* certificate.
line_status_code_first(line, url, follow, version) ==
    LET timeout == IF follow THEN URL_TIMEOUT_REDIRECT ELSE URL_TIMEOUT
        time_connect == parse_time(line.time_connect, version)
        time_total == parse_time(line.time_total, version)
    IN  IF time_total >= timeout * 990000 THEN "TIMEOUT"
        ELSE IF line.response_code # 0
        THEN status_from_response_code(line.response_code, url)
        ELSE IF line.ssl_verify_result # 0 THEN "BAD_CERTIFICATE"
        ELSE IF time_connect = 0 /\ line.num_connects = 0 THEN "BAD_HOST"
        ELSE "UNSUPPORTED"

\* A mutant of no_response_status: one zero counter is enough.
no_response_status_either(time_connect, num_connects) ==
    IF time_connect = 0 \/ num_connects = 0 THEN "BAD_HOST" ELSE "UNSUPPORTED"

\* Lines 486-490: no response code was obtained
no_response_status(time_connect, num_connects) ==
    IF time_connect = 0 /\ num_connects = 0 THEN "BAD_HOST" ELSE "UNSUPPORTED"

\* Line 445
timeout_for(follow) ==
    IF follow THEN URL_TIMEOUT_REDIRECT ELSE URL_TIMEOUT

\* Lines 477-492: the status of the URL a line is associated with.
\* (timeout * 1000000 * 0.99 is timeout * 990000)
line_status(line, url, follow, version) ==
    LET timeout == timeout_for(follow)
        time_connect == parse_time(line.time_connect, version)
        time_total == parse_time(line.time_total, version)
    IN  IF time_total >= timeout * 990000 THEN "TIMEOUT"
        ELSE IF line.ssl_verify_result # 0 THEN "BAD_CERTIFICATE"
        ELSE IF line.response_code = 0
        THEN no_response_status(time_connect, line.num_connects)
        ELSE status_from_response_code(line.response_code, url)

EmptyMap == [u \in {} |-> "UNSUPPORTED"]

\* A mutant of Assign: an unclassified URL is left out of the dict.
AssignClassified(d, k, v) ==
    IF v = "UNSUPPORTED" THEN d
    ELSE [u \in DOMAIN d \cup {k} |-> IF u = k THEN v ELSE d[u]]

\* d[k] = v on a dict
Assign(d, k, v) == [u \in DOMAIN d \cup {k} |-> IF u = k THEN v ELSE d[u]]

\* A mutant of Merge: the second dict replaces the first.
MergeReplacing(a, b) == b

\* {**a, **b}
Merge(a, b) ==
    [u \in DOMAIN a \cup DOMAIN b |-> IF u \in DOMAIN b THEN b[u] ELSE a[u]]

\* list(a_set): some order of its elements
RECURSIVE list(_)
list(S) ==
    IF S = {} THEN <<>>
    ELSE LET x == CHOOSE x \in S : TRUE IN <<x>> \o list(S \ {x})

\* The while loop of lines 462-494 over the lines the pipe delivers: each
\* line pops the next URL of the sorted list; a line that comes when the
\* list is empty makes urls.pop(0) raise IndexError.
RECURSIVE read_lines(_, _, _, _, _)
read_lines(sorted_urls, lines, results, follow, version) ==
    IF lines = <<>> THEN [raised |-> FALSE, results |-> results]
    ELSE IF sorted_urls = <<>> THEN [raised |-> TRUE, results |-> results]
    ELSE read_lines(Tail(sorted_urls), Tail(lines),
                    Assign(results, Head(sorted_urls),
                           line_status(Head(lines), Head(sorted_urls),
                                       follow, version)),
                    follow, version)

\* A mutant of check_url_batch: fewer lines than URLs make it raise.
check_url_batch_strict(batch, follow, version, lines) ==
    LET r == read_lines(sort(list(batch)), lines, EmptyMap, follow, version)
    IN  [raised |-> r.raised \/ Len(lines) < Cardinality(batch),
         results |-> r.results]

\* check_url_batch(batch, redirect), given the curl installed and the lines
\* its pipe delivers: the dict returned, or raised.
check_url_batch(batch, follow, version, lines) ==
    read_lines(sort(list(batch)), lines, EmptyMap, follow, version)

----------------------------------------------------------------------------
(* check_urls *)

SupportedSchemes ==
    {<<"h","t","t","p">>, <<"h","t","t","p","s">>,
     <<"f","t","p">>, <<"f","t","p","s">>}

\* A mutant of Supported: the scheme is not compared with the supported ones.
SupportedAnyScheme(url) == URL_MATCH_RE(url)

\* Lines 510-520: the URLs check_urls keeps
Supported(url) ==
    URL_MATCH_RE(url) /\ lower(group1(url)) \in SupportedSchemes

Max(a, b) == IF a >= b THEN a ELSE b
Min(a, b) == IF a <= b THEN a ELSE b

\* A mutant of batch_size_for: the quotient is rounded up.
batch_size_for_rounded_up(n) ==
    IF n >= URL_BATCHES * PARALLEL_URL_THREADS THEN URL_BATCHES
    ELSE Max((n + PARALLEL_URL_THREADS - 1) \div PARALLEL_URL_THREADS,
             URL_BATCHES_MIN)

\* Lines 524-525
batch_size_for(n) ==
    IF n >= URL_BATCHES * PARALLEL_URL_THREADS THEN URL_BATCHES
    ELSE Max(n \div PARALLEL_URL_THREADS, URL_BATCHES_MIN)

\* A mutant of sort_if_few: the list is left as it is.
sort_never(all_urls) == all_urls

\* Lines 538-539
sort_if_few(all_urls) ==
    IF Len(all_urls) < 100 THEN sort(all_urls) ELSE all_urls

\* A mutant of make_batches: each batch also takes the first URL of the next.
RECURSIVE make_batches_overlapping(_, _)
make_batches_overlapping(all_urls, batch_size) ==
    IF all_urls = <<>> THEN <<>>
    ELSE LET k == Min(batch_size, Len(all_urls))
         IN  <<{all_urls[i] : i \in 1..Min(k + 1, Len(all_urls))}>>
                 \o make_batches_overlapping(
                        SubSeq(all_urls, k + 1, Len(all_urls)), batch_size)

\* Lines 541-548
RECURSIVE make_batches(_, _)
make_batches(all_urls, batch_size) ==
    IF all_urls = <<>> THEN <<>>
    ELSE LET k == Min(batch_size, Len(all_urls))
         IN  <<{all_urls[i] : i \in 1..k}>>
                 \o make_batches(SubSeq(all_urls, k + 1, Len(all_urls)),
                                 batch_size)

\* A mutant of check_urls_batches: no URL is skipped.
check_urls_batches_unfiltered(url_list) ==
    make_batches(sort_if_few(url_list), batch_size_for(Len(url_list)))

\* Lines 509-548: the batches check_urls builds from its argument
check_urls_batches(url_list) ==
    LET all_urls == SelectSeq(url_list, Supported)
    IN  make_batches(sort_if_few(all_urls), batch_size_for(Len(all_urls)))

----------------------------------------------------------------------------
(* The probe: what curl may print for a batch *)

\* Bounds of the model
MaxCode == 610          \* response codes 0..MaxCode are tried
MaxInputUrls == 3       \* URLs of an input whose every order is tried

OutcomeProfiles == {"codes", "fields", "few", "net", "two", "ok", "down",
                    "slow", "busy"}

SomeCodes == {0, 200, 301, 403, 404, 429, 503, 250, 230, 530, 100, 600}
SomeTimes == {0, 1500, 6929999, 6930000, 7000000, 24749999, 24750000, 25000000}

\* The outcome lines of a profile.  "codes": every response code on a fast
\* transfer; "fields": every combination of some values of each field;
\* "few", "net", "two" and "ok": a handful, for batches of several URLs.
Outcomes(profile) ==
    CASE profile = "codes" ->
            {OutcomeLine(rc, ssl, 1500, 250000, 1) :
                rc \in 0..MaxCode, ssl \in {0, 1}}
      [] profile = "fields" ->
            {OutcomeLine(rc, ssl, tc, tt, nc) :
                rc \in SomeCodes, ssl \in {0, 1, 19}, tc \in {0, 1500},
                tt \in SomeTimes, nc \in {0, 1}}
      [] profile = "few" ->
            {OutcomeLine(200, 0, 1500, 250000, 1),
             OutcomeLine(530, 0, 1500, 250000, 1),
             OutcomeLine(0, 0, 0, 3000, 0),
             OutcomeLine(0, 0, 1500, 3000, 1)}
      [] profile = "net" ->
            {OutcomeLine(200, 0, 1500, 250000, 1),
             OutcomeLine(301, 0, 1500, 250000, 1),
             OutcomeLine(429, 0, 1500, 250000, 1)}
      [] profile = "two" ->
            {OutcomeLine(200, 0, 1500, 250000, 1),
             OutcomeLine(301, 0, 1500, 250000, 1)}
      [] profile = "ok" ->
            {OutcomeLine(200, 0, 1500, 250000, 1)}
      [] profile = "down" ->
            {OutcomeLine(0, 0, 0, 3000, 0)}
      [] profile = "slow" ->
            {OutcomeLine(301, 0, 1500, 250000, 1),
             OutcomeLine(429, 0, 1500, 250000, 1),
             OutcomeLine(0, 0, 1500, 25000000, 1)}
      [] profile = "busy" ->
            {OutcomeLine(301, 0, 1500, 250000, 1),
             OutcomeLine(429, 0, 1500, 250000, 1)}

\* The numbers of lines curl may print for n URLs: one per URL; fewer when it
\* dies early (env.short); one more when it makes two transfers of one URL
\* (env.surplus: no --globoff is given, so a URL holding {a,b} or [1-2] is
\* expanded by curl).
LineCounts(n) ==
    {k \in 0..(n + 1) : (k < n => env.short) /\ (k > n => env.surplus)}

ProbeOutputs(n) ==
    UNION {[1..k -> Outcomes(env.outcomes)] : k \in LineCounts(n)}

Versions == {"7.74.0", "7.88.1"}

----------------------------------------------------------------------------
(* check_urls and process_urls as actions *)

\* A future: its state; and once check_url_batch has ended, the lines its
\* pipe delivered, whether it raised, and its results dict as it then was
\* (the dict returned, when it did not raise).
NoFuture == [state |-> "pending", lines |-> <<>>, raised |-> FALSE,
             results |-> EmptyMap]

Running == {i \in 1..Len(futures) : futures[i].state = "running"}

\* A mutant of worker_available: a thread for every work item.
worker_always_available(running) == TRUE

\* ThreadPoolExecutor(max_workers=PARALLEL_URL_THREADS): a queued work item
\* is taken only by a free worker thread.
worker_available(running) == running < PARALLEL_URL_THREADS

\* check_urls, lines 509-550, up to the call of process_urls
CheckUrls ==
    /\ cpc = "called"
    /\ batches' = check_urls_batches(urls)
    /\ urls' = <<>>
    /\ cpc' = "processing"
    /\ ppc' = "running"
    /\ futures' = <<>>
    /\ url_results' = EmptyMap
    /\ UNCHANGED <<mainVars, redirect, env, probes>>

\* executor.submit(checker, package, redirect), line 366: as_completed draws
\* the whole generator before it yields anything, in the order of batches.
Submit ==
    /\ ppc = "running"
    /\ Len(futures) < Len(batches)
    /\ futures' = Append(futures, NoFuture)
    /\ UNCHANGED <<mainVars, cpc, urls, redirect, batches, ppc, url_results, env, probes>>

\* A mutant of Start: the worker threads take the first work item only.
StartFirstOnly(i) ==
    /\ i = 1
    /\ ppc \in {"running", "unwinding"}
    /\ futures[i].state = "pending"
    /\ worker_available(Cardinality(Running))
    /\ futures' = [futures EXCEPT ![i].state = "running"]
    /\ UNCHANGED <<mainVars, cpc, urls, redirect, batches, ppc, url_results, env, probes>>

\* A worker thread takes the oldest queued work item.
Start(i) ==
    /\ ppc \in {"running", "unwinding"}
    /\ futures[i].state = "pending"
    /\ \A j \in 1..(i - 1) : futures[j].state # "pending"
    /\ worker_available(Cardinality(Running))
    /\ futures' = [futures EXCEPT ![i].state = "running"]
    /\ UNCHANGED <<mainVars, cpc, urls, redirect, batches, ppc, url_results, env, probes>>

\* The command of lines 454-460, run at line 461: curl -m timeout, with -L
\* when redirects are followed, on the URLs of the batch in the order of the
\* sorted list; with the check of main it was run for, and the number of
\* lines it then printed.
curl(batch, follow, printed) ==
    [pass |-> pc, urls |-> batch, args |-> sort(list(batch)),
     follow |-> follow, timeout |-> timeout_for(follow), printed |-> printed]

\* A mutant of Finish: the worker writes its statuses into the map of
\* process_urls as well.
FinishShared(i) ==
    /\ futures[i].state = "running"
    /\ \E lines \in ProbeOutputs(Cardinality(batches[i])) :
          LET r == check_url_batch(batches[i], redirect, env.version, lines)
          IN  /\ futures' = [futures EXCEPT ![i] =
                     [state |-> "finished", lines |-> lines,
                      raised |-> r.raised, results |-> r.results]]
              /\ url_results' = Merge(url_results, r.results)
              /\ probes' = probes (+) SetToBag({curl(batches[i], redirect,
                                                     Len(lines))})
    /\ UNCHANGED <<mainVars, cpc, urls, redirect, batches, ppc, env>>

\* check_url_batch runs to its end in the worker: curl is run and prints its
\* lines, and the function returns its dict, or raises.
Finish(i) ==
    /\ futures[i].state = "running"
    /\ \E lines \in ProbeOutputs(Cardinality(batches[i])) :
          LET r == check_url_batch(batches[i], redirect, env.version, lines)
          IN  /\ futures' = [futures EXCEPT ![i] =
                     [state |-> "finished", lines |-> lines,
                      raised |-> r.raised, results |-> r.results]]
              /\ probes' = probes (+) SetToBag({curl(batches[i], redirect,
                                                     Len(lines))})
    /\ UNCHANGED <<mainVars, cpc, urls, redirect, batches, ppc, url_results, env>>

\* A mutant of Collect: a batch that resolved no URL counts as an exception.
CollectOrFail(i) ==
    /\ ppc = "running"
    /\ Len(futures) = Len(batches)
    /\ futures[i].state = "finished"
    /\ futures' = [futures EXCEPT ![i].state = "yielded", ![i].lines = <<>>]
    /\ IF \/ futures[i].raised
          \/ \E u \in DOMAIN futures[i].results :
                futures[i].results[u] = "BAD_HOST"
       THEN ppc' = "unwinding" /\ UNCHANGED url_results
       ELSE ppc' = ppc /\ url_results' = Merge(url_results, futures[i].results)
    /\ UNCHANGED <<mainVars, cpc, urls, redirect, batches, env, probes>>

\* One turn of the as_completed loop, lines 367-373: future.result() returns
\* the batch's dict, merged into url_results, or raises, which leaves the
\* with block.
Collect(i) ==
    /\ ppc = "running"
    /\ Len(futures) = Len(batches)
    /\ futures[i].state = "finished"
    /\ futures' = [futures EXCEPT ![i].state = "yielded", ![i].lines = <<>>]
    /\ IF futures[i].raised
       THEN ppc' = "unwinding" /\ UNCHANGED url_results
       ELSE ppc' = ppc /\ url_results' = Merge(url_results, futures[i].results)
    /\ UNCHANGED <<mainVars, cpc, urls, redirect, batches, env, probes>>

\* Line 374, after the with block
Return ==
    /\ ppc = "running"
    /\ Len(futures) = Len(batches)
    /\ \A i \in 1..Len(futures) : futures[i].state = "yielded"
    /\ ppc' = "returned"
    /\ UNCHANGED <<mainVars, cpc, urls, redirect, batches, futures, url_results,
                   env, probes>>

\* A mutant of Raise: the exception leaves at once, as shutdown(wait=False)
\* would let it.
RaiseWithoutWait ==
    /\ ppc = "unwinding"
    /\ ppc' = "raised"
    /\ UNCHANGED <<mainVars, cpc, urls, redirect, batches, futures, url_results,
                   env, probes>>

\* The with block's exit on an exception: executor.shutdown(wait=True) lets
\* the workers drain the queue, then the exception leaves process_urls.
Raise ==
    /\ ppc = "unwinding"
    /\ \A i \in 1..Len(futures) : futures[i].state \in {"finished", "yielded"}
    /\ ppc' = "raised"
    /\ UNCHANGED <<mainVars, cpc, urls, redirect, batches, futures, url_results,
                   env, probes>>

NextCheck ==
    \/ CheckUrls
    \/ Submit
    \/ \E i \in 1..Len(futures) : Start(i)
    \/ \E i \in 1..Len(futures) : Finish(i)
    \/ \E i \in 1..Len(futures) : Collect(i)
    \/ Return
    \/ Raise

----------------------------------------------------------------------------
(* URLs of the model *)

SEP == <<":", "/", "/">>

UrlHttpA == <<"h","t","t","p">> \o SEP \o <<"a">>
UrlHttpASlash == <<"h","t","t","p">> \o SEP \o <<"a", "/">>
UrlHttpsB == <<"H","T","T","P","S">> \o SEP \o <<"b">>
UrlFtpC == <<"f","t","p">> \o SEP \o <<"c">>
UrlFtpsD == <<"F","t","p","s">> \o SEP \o <<"d">>
UrlGit == <<"g","i","t">> \o SEP \o <<"e">>
UrlSvnSsh == <<"s","v","n","+","s","s","h">> \o SEP \o <<"f">>
UrlMailto == <<"m","a","i","l","t","o",":","x">>
UrlNoScheme == SEP \o <<"a">>
UrlOneSlash == <<"h","t","t","p",":","/">>
UrlHttpX == <<"h","t","t","p","x">> \o SEP \o <<"a">>

SupportedUrls == {UrlHttpA, UrlHttpASlash, UrlHttpsB, UrlFtpC, UrlFtpsD}
OtherUrls == {UrlGit, UrlSvnSsh, UrlMailto, UrlNoScheme, UrlOneSlash, UrlHttpX}

\* A mutant of Orders: every element comes twice, as in a list that was not
\* made a set.
OrdersRepeating(S) ==
    {f \o f : f \in {g \in [1..Cardinality(S) -> S] :
                        \A i, j \in DOMAIN g : i # j => g[i] # g[j]}}

\* Every order of the elements of a set: the orders a set may be iterated in
Orders(S) ==
    {f \in [1..Cardinality(S) -> S] : \A i, j \in DOMAIN f : i # j => f[i] # f[j]}

InitCall(input, follow, e) ==
    /\ pc = "pass1"
    /\ skip_url_check = FALSE
    /\ tree = <<>>
    /\ todo = {}
    /\ result = <<>>
    /\ checked_urls = EmptyMap
    /\ cpc = "called"
    /\ urls = input
    /\ redirect = follow
    /\ batches = <<>>
    /\ ppc = "idle"
    /\ futures = <<>>
    /\ url_results = EmptyMap
    /\ env = e
    /\ probes = EmptyBag

\* check_url_batch on one batch: a single URL with every outcome line, or up
\* to MaxInputUrls URLs with a few outcomes and any number of lines.
InitBatch ==
    \/ \E u \in SupportedUrls \ {UrlHttpASlash}, follow \in BOOLEAN,
          v \in Versions, p \in {"codes", "fields"} :
          InitCall(<<u>>, follow, [version |-> v, outcomes |-> p,
                                   short |-> FALSE, surplus |-> FALSE])
    \/ \E S \in SUBSET {UrlHttpA, UrlHttpsB, UrlFtpC, UrlGit},
          follow \in BOOLEAN,
          v \in Versions :
          /\ Cardinality(S) \in 2..MaxInputUrls
          /\ \E input \in Orders(S) :
                InitCall(input, follow, [version |-> v, outcomes |-> "few",
                                         short |-> TRUE, surplus |-> TRUE])

SpecBatch == InitBatch /\ [][NextCheck]_vars

\* Numbered URLs http://h/1, http://h/2, ...: their lexicographic order is
\* not their numeric order.
DigitChars == <<"0", "1", "2", "3", "4", "5", "6", "7", "8", "9">>

RECURSIVE Digits(_)
Digits(i) ==
    IF i < 10 THEN <<DigitChars[i + 1]>>
    ELSE Digits(i \div 10) \o <<DigitChars[(i % 10) + 1]>>

NumUrl(i) == <<"h","t","t","p">> \o SEP \o <<"h", "/">> \o Digits(i)

\* Bounds of the inputs of check_urls
MaxRunUrls == 30        \* every number of URLs 0..MaxRunUrls is tried
ManyUrls == 1000        \* and this many

InputSizes == (0..MaxRunUrls) \cup {99, 100, 101, 104, 105, ManyUrls}

\* n numbered URLs, counting up or down, alone or after two URLs check_urls
\* does not support
NumberedInput(n, up, junk) ==
    (IF junk THEN <<UrlGit, UrlMailto>> ELSE <<>>)
        \o [i \in 1..n |-> IF up THEN NumUrl(i) ELSE NumUrl(n + 1 - i)]

AnyEnv == [version |-> "7.88.1", outcomes |-> "ok", short |-> FALSE,
           surplus |-> FALSE]

\* check_urls called on some iterable of distinct URLs
InitUrls ==
    \/ \E S \in SUBSET (SupportedUrls \cup OtherUrls) :
          /\ Cardinality(S) <= MaxInputUrls
          /\ \E input \in Orders(S) : InitCall(input, FALSE, AnyEnv)
    \/ \E n \in InputSizes, up \in BOOLEAN, junk \in BOOLEAN :
          InitCall(NumberedInput(n, up, junk), FALSE, AnyEnv)

\* check_urls up to its call of process_urls
SpecUrls == InitUrls /\ [][CheckUrls]_vars

\* Bound of the inputs of process_urls: PoolUrls URLs make more batches than
\* there are worker threads.
PoolUrls == 16

PoolEnv == [version |-> "7.88.1", outcomes |-> "ok", short |-> FALSE,
            surplus |-> TRUE]

\* check_urls called on PoolUrls URLs, or on 4
InitPool ==
    \E n \in {4, PoolUrls} : InitCall(NumberedInput(n, TRUE, FALSE), FALSE, PoolEnv)

SpecPool == InitPool /\ [][NextCheck]_vars

\* The numbers of URLs of the calls of SpecParts: none, one that makes
\* batches of 3, 3, 3 and 1, and the one below 100 that makes the most
\* batches.
FewUrls == 10
MostBatchesUrls == 19

\* check_urls called on numbered URLs, alone or after two it does not support
InitParts ==
    \/ \E n \in {0, FewUrls}, junk \in BOOLEAN :
          InitCall(NumberedInput(n, FALSE, junk), FALSE, PoolEnv)
    \/ InitCall(NumberedInput(MostBatchesUrls, FALSE, TRUE), FALSE, AnyEnv)

SpecParts == InitParts /\ [][NextCheck]_vars

\* Bound of the inputs whose batches end with different results: MergeUrls
\* URLs make three batches.
MergeUrls == 7

MergeEnv == [version |-> "7.88.1", outcomes |-> "two", short |-> FALSE,
             surplus |-> TRUE]

\* check_urls called on MergeUrls URLs
InitMerge ==
    \E up \in BOOLEAN : InitCall(NumberedInput(MergeUrls, up, FALSE), FALSE, MergeEnv)

SpecMerge == InitMerge /\ [][NextCheck]_vars

----------------------------------------------------------------------------
(* main *)

Packages == {"pkg1", "pkg2"}

SpecLine(use, url) == [use |-> use, url |-> url]

\* UrlResult(package_file, use, url, UrlStatus.UNCHECKED)
UrlResult(name, use, url, status) ==
    [name |-> name, use |-> use, url |-> url, status |-> status]

\* Lines 202-216 with lines 145-192: the records process_package appends for
\* the lines rpmspec and spectool print for a package; a URL that
\* URL_MATCH_RE does not match is dropped.
process_package(name, lines) ==
    LET Kept(use) ==
            SelectSeq(lines, LAMBDA l : l.use = use /\ URL_MATCH_RE(l.url))
        Records(use) ==
            [i \in 1..Len(Kept(use)) |->
                UrlResult(name, use, Kept(use)[i].url, "UNCHECKED")]
    IN  Records("URL") \o Records("SOURCE") \o Records("PATCH")

\* A mutant of update_url_status: an entry whose URL is no key is left as it
\* is.
update_url_status_of_keys(entries, statuses) ==
    [i \in 1..Len(entries) |->
        LET url == entries[i].url
        IN  [entries[i] EXCEPT !.status =
                IF url \in DOMAIN statuses THEN statuses[url] ELSE @]]

\* Lines 218-233
update_url_status(entries, statuses) ==
    [i \in 1..Len(entries) |->
        LET url == entries[i].url
        IN  [entries[i] EXCEPT !.status =
                IF url \in DOMAIN statuses THEN statuses[url]
                ELSE IF url[Len(url)] # "/"
                        /\ (url \o <<"/">>) \in DOMAIN statuses
                THEN statuses[url \o <<"/">>]
                ELSE "UNSUPPORTED"]]

\* {entry.url for entry in proc.result}
UrlsOf(entries) == {entries[i].url : i \in 1..Len(entries)}

\* {u for u, s in checked_urls.items() if s == status}
WithStatus(statuses, status) ==
    {u \in DOMAIN statuses : statuses[u] = status}

\* The spec trees of the model
Trees ==
    { [pkg1 |-> <<SpecLine("URL", UrlHttpA), SpecLine("SOURCE", UrlHttpsB),
                  SpecLine("PATCH", UrlGit)>>,
       pkg2 |-> <<SpecLine("URL", UrlHttpA), SpecLine("SOURCE", UrlFtpC),
                  SpecLine("SOURCE", UrlMailto)>>],
      [pkg1 |-> <<SpecLine("URL", UrlSvnSsh)>>,
       pkg2 |-> <<>>],
      [pkg1 |-> <<SpecLine("URL", UrlHttpA), SpecLine("SOURCE", UrlHttpASlash)>>,
       pkg2 |-> <<SpecLine("SOURCE", UrlHttpX), SpecLine("PATCH", UrlOneSlash)>>],
      [pkg1 |-> <<SpecLine("URL", UrlHttpsB), SpecLine("SOURCE", UrlFtpC),
                  SpecLine("PATCH", UrlHttpA)>>,
       pkg2 |-> <<SpecLine("URL", UrlHttpsB), SpecLine("SOURCE", UrlHttpASlash)>>] }

MainEnv == [version |-> "7.88.1", outcomes |-> "net", short |-> TRUE,
            surplus |-> TRUE]

callVars == <<cpc, urls, redirect, batches, ppc, futures, url_results>>

Init ==
    /\ pc = "scan"
    /\ skip_url_check \in BOOLEAN
    /\ tree \in Trees
    /\ todo = Packages
    /\ result = <<>>
    /\ checked_urls = EmptyMap
    /\ cpc = "idle"
    /\ urls = <<>>
    /\ redirect = FALSE
    /\ batches = <<>>
    /\ ppc = "idle"
    /\ futures = <<>>
    /\ url_results = EmptyMap
    /\ env = MainEnv
    /\ probes = EmptyBag

\* process_packages, lines 349-357: a worker thread runs process_package
ProcessPackage(p) ==
    /\ pc = "scan"
    /\ p \in todo
    /\ todo' = todo \ {p}
    /\ result' = result \o process_package(p, tree[p])
    /\ UNCHANGED <<pc, skip_url_check, tree, checked_urls, callVars, env, probes>>

\* check_urls(S, redirect=follow) is called; main goes on at next.
Call(S, follow, next) ==
    /\ pc' = next
    /\ cpc' = "called"
    /\ urls' \in Orders(S)
    /\ redirect' = follow
    /\ batches' = <<>>
    /\ ppc' = "idle"
    /\ futures' = <<>>
    /\ url_results' = EmptyMap

\* Lines 625-626 are reached
ToUpdate ==
    /\ pc' = "update"
    /\ cpc' = "idle"
    /\ urls' = <<>>
    /\ redirect' = FALSE
    /\ batches' = <<>>
    /\ ppc' = "idle"
    /\ futures' = <<>>
    /\ url_results' = EmptyMap

\* A mutant of RecheckTemporary: redirect=True is left out of the call.
RecheckTemporaryNoFollow(checked) ==
    IF WithStatus(checked, "TEMPORARY_ERR") # {}
    THEN Call(WithStatus(checked, "TEMPORARY_ERR"), FALSE, "pass3")
    ELSE ToUpdate

\* Lines 618-623
RecheckTemporary(checked) ==
    IF WithStatus(checked, "TEMPORARY_ERR") # {}
    THEN Call(WithStatus(checked, "TEMPORARY_ERR"), TRUE, "pass3")
    ELSE ToUpdate

\* A mutant of RecheckRedirect: every URL checked is checked again.
RecheckRedirectAll(checked) ==
    IF DOMAIN checked # {}
    THEN Call(DOMAIN checked, TRUE, "pass2")
    ELSE RecheckTemporary(checked)

\* Lines 611-616
RecheckRedirect(checked) ==
    IF WithStatus(checked, "REDIRECT") # {}
    THEN Call(WithStatus(checked, "REDIRECT"), TRUE, "pass2")
    ELSE RecheckTemporary(checked)

\* A mutant of CallPass1: args.skip_url_check is not looked at.
CallPass1Always ==
    /\ pc = "scan"
    /\ todo = {}
    /\ Call(UrlsOf(result), FALSE, "pass1")
    /\ UNCHANGED <<skip_url_check, tree, todo, result, checked_urls, env, probes>>

\* Lines 606-609: the first check, of every URL of the records
CallPass1 ==
    /\ pc = "scan"
    /\ todo = {}
    /\ ~skip_url_check
    /\ Call(UrlsOf(result), FALSE, "pass1")
    /\ UNCHANGED <<skip_url_check, tree, todo, result, checked_urls, env, probes>>

\* Lines 627-628
SkipCheck ==
    /\ pc = "scan"
    /\ todo = {}
    /\ skip_url_check
    /\ pc' = "report"
    /\ UNCHANGED <<skip_url_check, tree, todo, result, checked_urls, callVars,
                   env, probes>>

\* A mutant of ReturnPass1: the records are updated as soon as the first
\* check returns.
ReturnPass1Updating ==
    /\ pc = "pass1"
    /\ ppc = "returned"
    /\ checked_urls' = url_results
    /\ RecheckRedirect(url_results)
    /\ result' = update_url_status(result, url_results)
    /\ UNCHANGED <<skip_url_check, tree, todo, env, probes>>

\* Line 609: the first check returns
ReturnPass1 ==
    /\ pc = "pass1"
    /\ ppc = "returned"
    /\ checked_urls' = url_results
    /\ RecheckRedirect(url_results)
    /\ UNCHANGED <<skip_url_check, tree, todo, result, env, probes>>

\* Lines 615-616: the recheck of the redirected URLs returns
ReturnPass2 ==
    /\ pc = "pass2"
    /\ ppc = "returned"
    /\ checked_urls' = Merge(checked_urls, url_results)
    /\ RecheckTemporary(Merge(checked_urls, url_results))
    /\ UNCHANGED <<skip_url_check, tree, todo, result, env, probes>>

\* A mutant of ReturnPass3: the temporary errors are rechecked until none is
\* left.
ReturnPass3Again ==
    /\ pc = "pass3"
    /\ ppc = "returned"
    /\ checked_urls' = Merge(checked_urls, url_results)
    /\ RecheckTemporary(Merge(checked_urls, url_results))
    /\ UNCHANGED <<skip_url_check, tree, todo, result, env, probes>>

\* Lines 622-623: the recheck of the temporary errors returns
ReturnPass3 ==
    /\ pc = "pass3"
    /\ ppc = "returned"
    /\ checked_urls' = Merge(checked_urls, url_results)
    /\ ToUpdate
    /\ UNCHANGED <<skip_url_check, tree, todo, result, env, probes>>

\* Line 626
UpdateUrlStatus ==
    /\ pc = "update"
    /\ result' = update_url_status(result, checked_urls)
    /\ pc' = "report"
    /\ UNCHANGED <<skip_url_check, tree, todo, checked_urls, callVars, env, probes>>

\* Lines 630-636: the report is printed
Report ==
    /\ pc = "report"
    /\ pc' = "done"
    /\ UNCHANGED <<skip_url_check, tree, todo, result, checked_urls, callVars,
                   env, probes>>

\* A mutant of Crash: main catches the exception and reports what it has.
CrashThenReport ==
    /\ pc \in {"pass1", "pass2", "pass3"}
    /\ ppc = "raised"
    /\ pc' = "report"
    /\ result' = update_url_status(result, checked_urls)
    /\ UNCHANGED <<skip_url_check, tree, todo, checked_urls, callVars,
                   env, probes>>

\* An exception leaves process_urls, check_urls and main: nothing catches it.
Crash ==
    /\ pc \in {"pass1", "pass2", "pass3"}
    /\ ppc = "raised"
    /\ pc' = "crashed"
    /\ UNCHANGED <<skip_url_check, tree, todo, result, checked_urls, callVars,
                   env, probes>>

Next ==
    \/ \E p \in Packages : ProcessPackage(p)
    \/ CallPass1
    \/ SkipCheck
    \/ ReturnPass1
    \/ ReturnPass2
    \/ ReturnPass3
    \/ UpdateUrlStatus
    \/ Report
    \/ Crash
    \/ NextCheck

Spec == Init /\ [][Next]_vars

\* No network path: curl reports no response for any URL.
DownEnv == [version |-> "7.88.1", outcomes |-> "down", short |-> TRUE,
            surplus |-> TRUE]

\* The trees in which no URL is another one with a slash added
PlainTrees ==
    {t \in Trees : \A p \in Packages : \A j \in 1..Len(t[p]) :
                       t[p][j].url # UrlHttpASlash}

\* main on a tree, with servers that answer or with no network path
InitDown ==
    /\ pc = "scan"
    /\ skip_url_check \in BOOLEAN
    /\ tree \in PlainTrees
    /\ todo = Packages
    /\ result = <<>>
    /\ checked_urls = EmptyMap
    /\ cpc = "idle"
    /\ urls = <<>>
    /\ redirect = FALSE
    /\ batches = <<>>
    /\ ppc = "idle"
    /\ futures = <<>>
    /\ url_results = EmptyMap
    /\ env \in {MainEnv, DownEnv}
    /\ probes = EmptyBag

SpecDown == InitDown /\ [][Next]_vars

\* Servers that redirect, that refuse for now, or that accept the
\* connection and never answer, so that curl ends the transfer at its
\* deadline (-m, line 455) and reports the 25 s it took.
SlowEnv == [version |-> "7.88.1", outcomes |-> "slow", short |-> FALSE,
            surplus |-> TRUE]

\* Servers that redirect or refuse for now
BusyEnv == [version |-> "7.88.1", outcomes |-> "busy", short |-> FALSE,
            surplus |-> TRUE]

TreeUrls(t) == UNION {{t[p][j].url : j \in 1..Len(t[p])} : p \in Packages}

\* main on a tree whose URLs make one batch, with the servers of SlowEnv, or
\* two batches, with those of BusyEnv
InitFair ==
    /\ pc = "scan"
    /\ skip_url_check \in BOOLEAN
    /\ tree \in Trees \ PlainTrees
    /\ todo = Packages
    /\ result = <<>>
    /\ checked_urls = EmptyMap
    /\ cpc = "idle"
    /\ urls = <<>>
    /\ redirect = FALSE
    /\ batches = <<>>
    /\ ppc = "idle"
    /\ futures = <<>>
    /\ url_results = EmptyMap
    /\ env = IF Cardinality({u \in TreeUrls(tree) : Supported(u)}) > URL_BATCHES_MIN
             THEN BusyEnv ELSE SlowEnv
    /\ probes = EmptyBag

\* Weak fairness of CheckUrls, written out: ENABLED CheckUrls is
\* cpc = "called", and the steps of CheckUrls are those that take cpc from
\* "called" to "processing".
CheckUrlsFair ==
    \/ []<>(cpc # "called")
    \/ []<><<cpc = "called" /\ cpc' = "processing">>_vars

\* Weak fairness of Finish, written out: some Finish(i) is enabled when a
\* batch is in a worker, and its steps are those that end such a batch.
\* curl -m ends every transfer, so os.popen's pipe reaches its end.
FinishFair ==
    \/ []<>(Running = {})
    \/ []<><<\E i \in Running : futures'[i].state = "finished">>_vars

\* The main thread and the worker threads are scheduled, and curl ends.
Fairness ==
    /\ WF_vars(\E p \in Packages : ProcessPackage(p))
    /\ WF_vars(CallPass1)
    /\ WF_vars(SkipCheck)
    /\ WF_vars(ReturnPass1)
    /\ WF_vars(ReturnPass2)
    /\ WF_vars(ReturnPass3)
    /\ WF_vars(UpdateUrlStatus)
    /\ WF_vars(Report)
    /\ WF_vars(Crash)
    /\ CheckUrlsFair
    /\ WF_vars(Submit)
    /\ WF_vars(\E i \in 1..Len(futures) : Start(i))
    /\ FinishFair
    /\ WF_vars(\E i \in 1..Len(futures) : Collect(i))
    /\ WF_vars(Return)
    /\ WF_vars(Raise)

SpecFair == InitFair /\ [][Next]_vars /\ Fairness

----------------------------------------------------------------------------
(* Claims about check_url_batch, checked under SpecBatch *)

Ended == {i \in 1..Len(futures) : futures[i].state = "finished"}

\* The k-th URL of a batch in lexicographic order: k - 1 URLs are below it.
KthUrl(batch, k) ==
    CHOOSE u \in batch : Cardinality({v \in batch : StrLess(v, u)}) = k - 1

\* The lines of an ended call that have a URL of the batch to go with
Associated(i) == 1..Min(Len(futures[i].lines), Cardinality(batches[i]))

\* total_time >= 0.99 x deadline, in microseconds: 0.99 x 7 s and 0.99 x 25 s
IsTimeout(line) ==
    line.time_total >= (IF redirect THEN 24750000 ELSE 6930000)

HttpUrls == {UrlHttpA, UrlHttpASlash, UrlHttpsB}
FtpUrls == {UrlFtpC, UrlFtpsD}

\* C1: in check_url_batch every outcome whose total time is at least 0.99 x
\* the deadline of the pass (7 s, or 25 s when redirects are followed) gives
\* its URL the status TIMEOUT, whatever its other fields are.
C1_TimeoutDominates ==
    \A i \in Ended : \A k \in Associated(i) :
        IsTimeout(futures[i].lines[k])
            => futures[i].results[KthUrl(batches[i], k)] = "TIMEOUT"

C1_Witness ==
    \E i \in Ended :
        /\ ~redirect
        /\ env.version = "7.88.1"
        /\ futures[i].lines = <<OutcomeLine(200, 1, 1500, 6930000, 1)>>
        /\ futures[i].results[KthUrl(batches[i], 1)] = "TIMEOUT"

\* C2: an outcome that is no timeout and has a non-zero TLS verification
\* result gives BAD_CERTIFICATE whatever the response code is.
C2_BadCertificate ==
    \A i \in Ended : \A k \in Associated(i) :
        LET line == futures[i].lines[k]
        IN  (~IsTimeout(line) /\ line.ssl_verify_result # 0)
                => futures[i].results[KthUrl(batches[i], k)] = "BAD_CERTIFICATE"

C2_Witness ==
    \E i \in Ended :
        /\ futures[i].lines = <<OutcomeLine(200, 1, 1500, 250000, 1)>>
        /\ batches[i] = {UrlHttpA}
        /\ futures[i].results[UrlHttpA] = "BAD_CERTIFICATE"

\* An outcome that reaches the dispatch on the response code
Dispatched(line) ==
    ~IsTimeout(line) /\ line.ssl_verify_result = 0 /\ line.response_code # 0

\* C3: for an http or https URL the response code decides, first match
\* first: 2xx VALID; 423, 429 TEMPORARY_ERR; 401, 402, 403 AUTHENTICATE;
\* other 3xx REDIRECT; other 4xx NOT_FOUND; 5xx TEMPORARY_ERR; any other
\* code UNSUPPORTED.
C3_HttpTable ==
    \A i \in Ended : \A k \in Associated(i) :
        LET line == futures[i].lines[k]
            rc == line.response_code
            u == KthUrl(batches[i], k)
            st == futures[i].results[u]
        IN  (Dispatched(line) /\ u \in HttpUrls) =>
                /\ rc \in 200..299 => st = "VALID"
                /\ rc \in {423, 429} => st = "TEMPORARY_ERR"
                /\ rc \in {401, 402, 403} => st = "AUTHENTICATE"
                /\ rc \in 300..399 => st = "REDIRECT"
                /\ rc \in (400..499) \ {401, 402, 403, 423, 429}
                        => st = "NOT_FOUND"
                /\ rc \in 500..599 => st = "TEMPORARY_ERR"
                /\ (rc < 200 \/ rc >= 600) => st = "UNSUPPORTED"

C3_Witness ==
    \E i \in Ended :
        /\ batches[i] = {UrlHttpsB}
        /\ futures[i].lines = <<OutcomeLine(429, 0, 1500, 250000, 1)>>
        /\ futures[i].results[UrlHttpsB] = "TEMPORARY_ERR"

\* C4: for an ftp or ftps URL the response code decides, first match first:
\* 250, 257, 350 VALID; 530, 430 AUTHENTICATE; 221, 230 TEMPORARY_ERR; other
\* 4xx TEMPORARY_ERR; other 5xx NOT_FOUND; any other code UNSUPPORTED.
C4_FtpTable ==
    \A i \in Ended : \A k \in Associated(i) :
        LET line == futures[i].lines[k]
            rc == line.response_code
            u == KthUrl(batches[i], k)
            st == futures[i].results[u]
        IN  (Dispatched(line) /\ u \in FtpUrls) =>
                /\ rc \in {250, 257, 350} => st = "VALID"
                /\ rc \in {530, 430} => st = "AUTHENTICATE"
                /\ rc \in {221, 230} => st = "TEMPORARY_ERR"
                /\ rc \in (400..499) \ {430} => st = "TEMPORARY_ERR"
                /\ rc \in (500..599) \ {530} => st = "NOT_FOUND"
                /\ rc \notin {250, 257, 350, 221, 230} \cup (400..599)
                        => st = "UNSUPPORTED"

\* The same code 530 for an http and an ftp URL of one batch
C4_Witness ==
    \E i \in Ended :
        /\ batches[i] = {UrlHttpA, UrlFtpC}
        /\ futures[i].lines = <<OutcomeLine(530, 0, 1500, 250000, 1),
                                OutcomeLine(530, 0, 1500, 250000, 1)>>
        /\ futures[i].results[UrlFtpC] = "AUTHENTICATE"
        /\ futures[i].results[UrlHttpA] = "TEMPORARY_ERR"

\* C5: an outcome that is no timeout, has TLS result 0 and response code 0
\* gives BAD_HOST when connect time and connection count are both 0, and
\* UNSUPPORTED otherwise; the loop then goes on with the next line and URL.
C5_NoResponse ==
    \A i \in Ended : \A k \in Associated(i) :
        LET line == futures[i].lines[k]
            u == KthUrl(batches[i], k)
        IN  (~IsTimeout(line) /\ line.ssl_verify_result = 0
                /\ line.response_code = 0) =>
                /\ futures[i].results[u] =
                       IF line.time_connect = 0 /\ line.num_connects = 0
                       THEN "BAD_HOST" ELSE "UNSUPPORTED"
                /\ (k + 1) \in Associated(i) =>
                       KthUrl(batches[i], k + 1) \in DOMAIN futures[i].results

C5_Witness ==
    \E i \in Ended :
        /\ batches[i] = {UrlHttpA, UrlFtpC}
        /\ futures[i].lines = <<OutcomeLine(0, 0, 1500, 3000, 1),
                                OutcomeLine(200, 0, 1500, 250000, 1)>>
        /\ ~futures[i].raised
        /\ futures[i].results[UrlFtpC] = "UNSUPPORTED"
        /\ futures[i].results[UrlHttpA] = "VALID"

\* C7 as stated: the key set of the dict check_url_batch returns is the
\* batch.
C7_KeysEqualBatch ==
    \A i \in Ended :
        ~futures[i].raised => DOMAIN futures[i].results = batches[i]

\* C7, amended: the key set of the dict check_url_batch returns is the set of
\* the first k URLs of the batch in lexicographic order, k being the number
\* of lines curl printed; so it is within the batch, and it is the batch when
\* curl printed one line per URL.
C7_KeysAreAssociated ==
    \A i \in Ended :
        ~futures[i].raised =>
            /\ DOMAIN futures[i].results =
                   {KthUrl(batches[i], k) : k \in 1..Len(futures[i].lines)}
            /\ DOMAIN futures[i].results \subseteq batches[i]
            /\ Len(futures[i].lines) = Cardinality(batches[i])
                   => DOMAIN futures[i].results = batches[i]

C7_Witness ==
    \E i \in Ended :
        /\ ~futures[i].raised
        /\ Cardinality(batches[i]) = 3
        /\ Len(futures[i].lines) = 3
        /\ DOMAIN futures[i].results = batches[i]

----------------------------------------------------------------------------
(* Claims about check_urls, checked under SpecUrls *)

Range(f) == {f[i] : i \in DOMAIN f}

\* The number of batches and the size of each, for n URLs in batches of bs
SizesAre(bs, n, bb) ==
    /\ Len(bb) = (n + bs - 1) \div bs
    /\ \A k \in 1..Len(bb) :
          Cardinality(bb[k]) = IF k < Len(bb) THEN bs ELSE n - bs * (Len(bb) - 1)

\* C8: with n supported URLs the batch size is 20 when n >= 100 and
\* max(floor(n / 5), 3) otherwise: 1000 URLs make 50 batches of 20, and 10
\* URLs make batches of 3, 3, 3 and 1.
C8_BatchSize ==
    [][(cpc = "called" /\ cpc' = "processing") =>
        LET n == Len(SelectSeq(urls, Supported))
            q == n \div 5
            bs == IF n >= 100 THEN 20 ELSE IF q >= 3 THEN q ELSE 3
        IN  /\ SizesAre(bs, n, batches')
            /\ n = 1000 =>
                  /\ Len(batches') = 50
                  /\ \A k \in 1..50 : Cardinality(batches'[k]) = 20
            /\ n = 10 =>
                  /\ Len(batches') = 4
                  /\ Cardinality(batches'[1]) = 3
                  /\ Cardinality(batches'[2]) = 3
                  /\ Cardinality(batches'[3]) = 3
                  /\ Cardinality(batches'[4]) = 1
      ]_vars

C8_Witness ==
    /\ cpc = "processing"
    /\ Len(batches) = 50
    /\ \A k \in 1..50 : Cardinality(batches[k]) = 20

\* C9: fewer than 100 supported URLs are batched in lexicographic order, 100
\* or more in the order of the input: the p-th URL of that order is in batch
\* floor((p - 1) / batch size) + 1.
C9_SortedWhenFew ==
    [][(cpc = "called" /\ cpc' = "processing") =>
        LET all == SelectSeq(urls, Supported)
            n == Len(all)
            bs == IF n = 0 THEN 1 ELSE Cardinality(batches'[1])
            Below(u) == Cardinality({v \in Range(all) : StrLess(v, u)})
            PlaceOf(p) == IF n < 100 THEN Below(all[p]) + 1 ELSE p
        IN  \A p \in 1..n :
                /\ ((PlaceOf(p) - 1) \div bs) + 1 \in 1..Len(batches')
                /\ all[p] \in batches'[((PlaceOf(p) - 1) \div bs) + 1]
      ]_vars

\* Ten URLs given counting down, batched as http://h/1, http://h/10,
\* http://h/2 | 3, 4, 5 | 6, 7, 8 | 9
C9_Witness ==
    /\ cpc = "processing"
    /\ Len(batches) = 4
    /\ batches[1] = {NumUrl(1), NumUrl(10), NumUrl(2)}
    /\ batches[4] = {NumUrl(9)}

----------------------------------------------------------------------------
(* Claims about process_urls, checked under SpecPool *)

Over == ppc \in {"returned", "raised"}

\* C10: process_urls submits one task per batch, runs each batch once, and
\* never has more than 5 (PARALLEL_URL_THREADS) batch checks executing at the
\* same time.
C10_BoundedPool ==
    /\ [](/\ Cardinality(Running) <= 5
          /\ Len(futures) <= Len(batches)
          /\ Over => /\ Len(futures) = Len(batches)
                     /\ \A i \in 1..Len(futures) :
                           futures[i].state \in {"finished", "yielded"})
    /\ [][\A i \in 1..Len(futures) :
            /\ futures[i].state # "pending" => futures'[i].state # "pending"
            /\ futures[i].state \in {"finished", "yielded"}
                   => futures'[i].state \in {"finished", "yielded"}
         ]_vars

\* Six batches: five executing, the sixth waiting for a thread
C10_Witness ==
    /\ Len(batches) = 6
    /\ Len(futures) = 6
    /\ Cardinality(Running) = 5
    /\ futures[6].state = "pending"

----------------------------------------------------------------------------
(* Claims about the whole run, checked under Spec *)

----------------------------------------------------------------------------
(* Claims about the merge of process_urls, checked under SpecMerge *)

Yielded == {i \in 1..Len(futures) : futures[i].state = "yielded"}

\* C11: the map process_urls returns does not depend on the order in which
\* the batches complete: the dicts of the batches have disjoint key sets, and
\* the accumulated map is at every turn of the loop the union of the dicts of
\* the batches collected so far, so that the map returned is the union of
\* all of them, each URL with the status its own batch gave it.
C11_OrderIndependent ==
    /\ \A i, j \in 1..Len(futures) :
          i # j => DOMAIN futures[i].results \cap DOMAIN futures[j].results = {}
    /\ ppc \in {"running", "returned"} =>
          /\ DOMAIN url_results = UNION {DOMAIN futures[i].results : i \in Yielded}
          /\ \A i \in Yielded : \A u \in DOMAIN futures[i].results :
                url_results[u] = futures[i].results[u]
    /\ ppc = "returned" => Yielded = 1..Len(batches)

\* Three batches returned different statuses, all in the map returned
C11_Witness ==
    /\ ppc = "returned"
    /\ Len(batches) = 3
    /\ DOMAIN url_results = {NumUrl(i) : i \in 1..7}
    /\ url_results[NumUrl(1)] = "VALID"
    /\ url_results[NumUrl(4)] = "REDIRECT"
    /\ url_results[NumUrl(5)] = "VALID"
    /\ url_results[NumUrl(7)] = "REDIRECT"

----------------------------------------------------------------------------
(* Claims about a batch that raises, checked under SpecPool *)

SomeRaised == \E i \in 1..Len(futures) : futures[i].raised

\* Something is left to do before the exception leaves process_urls: a batch
\* to submit, a work item a free thread can take, a check that is executing,
\* a completed future to collect, or the end of the with block.
CanGoOn ==
    \/ Len(futures) < Len(batches)
    \/ Running # {}
    \/ \E i \in 1..Len(futures) : futures[i].state = "pending"
    \/ ppc = "running" /\ \E i \in 1..Len(futures) : futures[i].state = "finished"
    \/ ppc = "unwinding"

\* C12: when check_url_batch raises for a batch, process_urls does not return
\* a map: nothing but the exception ends the call, and the exception leaves
\* it only when every batch has been submitted and has run to its end.
C12_RaisesAfterAll ==
    /\ [](ppc = "returned" => ~SomeRaised)
    /\ [](ppc = "raised" =>
             /\ Len(futures) = Len(batches)
             /\ \A i \in 1..Len(futures) :
                   futures[i].state \in {"finished", "yielded"}
             /\ \E i \in Yielded : futures[i].raised)
    /\ []((SomeRaised /\ ppc # "raised") =>
             (ppc \in {"running", "unwinding"} /\ CanGoOn))
    /\ [][(ppc \in {"unwinding", "raised"}) => (ppc' \in {"unwinding", "raised"})
         ]_vars

\* The first of six batches raised; the exception left after the sixth ended
C12_Witness ==
    /\ ppc = "raised"
    /\ Len(batches) = 6
    /\ futures[1].raised /\ futures[1].state = "yielded"
    /\ futures[6].state = "finished" /\ ~futures[6].raised
    /\ DOMAIN url_results = {}

----------------------------------------------------------------------------
(* Claims about a probe that fails, checked under Spec *)

Reported == pc \in {"report", "done"} /\ ~skip_url_check

\* The curl commands that printed no line
FailedProbes == {c \in BagToSet(probes) : c.printed = 0}

RecordsOf(S) == {j \in 1..Len(result) : result[j].url \in S}

\* A curl that prints nothing makes check_url_batch return an empty dict,
\* and process_urls returns the dicts of all the batches, merged.
FailedProbeIsNoError ==
    /\ \A i \in 1..Len(futures) :
          (futures[i].state = "finished" /\ futures[i].lines = <<>>) =>
              (~futures[i].raised /\ futures[i].results = EmptyMap)
    /\ ppc = "returned" =>
          /\ Yielded = 1..Len(batches)
          /\ \A i \in Yielded : \A u \in DOMAIN futures[i].results :
                url_results[u] = futures[i].results[u]

\* C13 as stated: a curl that prints nothing is no error, the other batches
\* are checked and their results returned, and every record of a URL of the
\* failed batch is reported UNCHECKED or UNSUPPORTED.
C13_FailedStayUnresolved ==
    /\ FailedProbeIsNoError
    /\ Reported =>
          \A c \in FailedProbes : \A j \in RecordsOf(c.urls) :
              result[j].status \in {"UNCHECKED", "UNSUPPORTED"}

\* C13, amended: a curl that prints nothing is no error, the other batches
\* are checked and their results returned, and every record of a URL of the
\* failed batch is reported with what was known of the URL before: REDIRECT
\* when the second check failed, TEMPORARY_ERR when the third did, and when
\* the first did, UNSUPPORTED, or the status of the URL with "/" appended
\* when the URL does not end in "/" and that URL has a status.
C13_FailedKeepEarlier ==
    /\ FailedProbeIsNoError
    /\ Reported =>
          \A c \in FailedProbes : \A j \in RecordsOf(c.urls) :
              LET url == result[j].url
                  slash == url \o <<"/">>
              IN  /\ c.pass = "pass1" =>
                        /\ url \notin DOMAIN checked_urls
                        /\ result[j].status =
                              IF url[Len(url)] # "/" /\ slash \in DOMAIN checked_urls
                              THEN checked_urls[slash] ELSE "UNSUPPORTED"
                  /\ c.pass = "pass2" => result[j].status = "REDIRECT"
                  /\ c.pass = "pass3" => result[j].status = "TEMPORARY_ERR"

\* The first check's curl printed nothing for HTTPS://b, ftp://c and
\* http://a; the batch of http://a/ was checked, and http://a is reported
\* with its status.
C13_Witness ==
    /\ pc = "done"
    /\ \E c \in FailedProbes :
          c.pass = "pass1" /\ c.urls = {UrlHttpsB, UrlFtpC, UrlHttpA}
    /\ checked_urls = [u \in {UrlHttpASlash} |-> "VALID"]
    /\ \A j \in RecordsOf({UrlHttpA}) : result[j].status = "VALID"
    /\ \A j \in RecordsOf({UrlHttpsB, UrlFtpC}) : result[j].status = "UNSUPPORTED"
    /\ RecordsOf({UrlHttpA}) # {}

----------------------------------------------------------------------------
(* Claims about the three checks of main, checked under Spec *)

\* The curl commands run for a check of main
ProbesIn(pass) == {c \in BagToSet(probes) : c.pass = pass}

\* How many times a URL was given to curl in a check of main
TimesProbed(pass, u) ==
    BagCardinality([c \in {d \in ProbesIn(pass) : u \in d.urls} |-> probes[c]])

\* The URLs of the records that check_urls supports
RecordUrls == {u \in UrlsOf(result) : Supported(u)}

\* A check of main has run all its batches
PassOver(pass) ==
    \/ pc = pass /\ ppc \in {"returned", "raised"}
    \/ pc \in {"update", "report", "done"} /\ ~skip_url_check
    \/ pass = "pass1" /\ pc \in {"pass2", "pass3"}
    \/ pass = "pass2" /\ pc = "pass3"

\* C14: the first check gives every supported URL of the records to curl
\* exactly once, however many records hold it, without -L and with the
\* deadline of 7 s.
C14_Pass1Once ==
    /\ \A c \in ProbesIn("pass1") :
          /\ ~c.follow
          /\ c.timeout = 7
          /\ c.urls \subseteq RecordUrls
    /\ \A u \in RecordUrls : TimesProbed("pass1", u) <= 1
    /\ PassOver("pass1") => \A u \in RecordUrls : TimesProbed("pass1", u) = 1

\* HTTPS://b is the URL of two packages and was given to curl once, in the
\* first of two batches
C14_Witness ==
    /\ PassOver("pass1")
    /\ Cardinality(RecordsOf({UrlHttpsB})) = 2
    /\ TimesProbed("pass1", UrlHttpsB) = 1
    /\ TimesProbed("pass1", UrlHttpASlash) = 1
    /\ Cardinality(ProbesIn("pass1")) = 2

\* C15: the second check is made once the first has run all its batches, on
\* the URLs the first found REDIRECT and on no other, each given to curl
\* once, with -L and the deadline of 25 s; what it returns for a URL
\* replaces the URL's status, and a URL it finds VALID is reported VALID.
C15_Pass2Redirects ==
    /\ [](pc = "pass2" =>
             LET redirected == WithStatus(checked_urls, "REDIRECT")
             IN  /\ redirect /\ redirected # {}
                 /\ cpc = "called" => Range(urls) = redirected
                 /\ cpc = "processing" => UNION Range(batches) = redirected
                 /\ \A c \in ProbesIn("pass2") :
                       c.follow /\ c.timeout = 25 /\ c.urls \subseteq redirected
                 /\ \A u \in redirected : TimesProbed("pass2", u) <= 1
                 /\ PassOver("pass2") =>
                       \A u \in redirected : TimesProbed("pass2", u) = 1)
    /\ [](ProbesIn("pass2") # {} =>
             \A u \in RecordUrls : TimesProbed("pass1", u) = 1)
    /\ [][(pc = "pass2" /\ pc' \in {"pass3", "update"}) =>
             \A u \in DOMAIN url_results : checked_urls'[u] = url_results[u]
         ]_vars
    /\ [][\A u \in DOMAIN checked_urls :
             checked_urls[u] = "VALID" =>
                 (u \in DOMAIN checked_urls' /\ checked_urls'[u] = "VALID")
         ]_vars
    /\ [](Reported =>
             \A j \in RecordsOf(WithStatus(checked_urls, "VALID")) :
                 result[j].status = "VALID")

\* http://a was REDIRECT in the first check and alone in the second, which
\* found it VALID, and so it is reported
C15_Witness ==
    /\ pc = "done"
    /\ TimesProbed("pass1", UrlHttpA) = 1
    /\ TimesProbed("pass2", UrlHttpA) = 1
    /\ TimesProbed("pass2", UrlHttpsB) = 0
    /\ TimesProbed("pass2", UrlFtpC) = 0
    /\ RecordUrls = {UrlHttpA, UrlHttpsB, UrlFtpC}
    /\ ProbesIn("pass3") = {}
    /\ \A j \in RecordsOf({UrlHttpA}) : result[j].status = "VALID"

\* C16: the third check is made after the second, on the URLs whose status
\* is then TEMPORARY_ERR, from the first check or from the second, and on no
\* other, each given to curl once, with -L and the deadline of 25 s; what it
\* returns for a URL replaces the URL's status, and a URL it finds
\* TEMPORARY_ERR again is reported TEMPORARY_ERR.
C16_Pass3Temporary ==
    /\ [](pc = "pass3" =>
             LET temporary == WithStatus(checked_urls, "TEMPORARY_ERR")
             IN  /\ redirect /\ temporary # {}
                 /\ cpc = "called" => Range(urls) = temporary
                 /\ cpc = "processing" => UNION Range(batches) = temporary
                 /\ \A c \in ProbesIn("pass3") :
                       c.follow /\ c.timeout = 25 /\ c.urls \subseteq temporary
                 /\ \A u \in temporary : TimesProbed("pass3", u) <= 1
                 /\ PassOver("pass3") =>
                       \A u \in temporary : TimesProbed("pass3", u) = 1)
    /\ [](ProbesIn("pass3") # {} => pc \notin {"scan", "pass1", "pass2"})
    /\ [][pc = "pass3" => (/\ ProbesIn("pass1")' = ProbesIn("pass1")
                            /\ ProbesIn("pass2")' = ProbesIn("pass2"))
         ]_vars
    /\ [][(pc = "pass3" /\ pc' = "update") =>
             \A u \in DOMAIN url_results : checked_urls'[u] = url_results[u]
         ]_vars
    /\ [](Reported =>
             \A j \in RecordsOf(WithStatus(checked_urls, "TEMPORARY_ERR")) :
                 result[j].status = "TEMPORARY_ERR")

\* http://a was TEMPORARY_ERR in the first check and HTTPS://b in the second;
\* the third check found both TEMPORARY_ERR again, and so they are reported
C16_Witness ==
    /\ pc = "done"
    /\ TimesProbed("pass2", UrlHttpA) = 0
    /\ TimesProbed("pass3", UrlHttpA) = 1
    /\ TimesProbed("pass2", UrlHttpsB) = 1
    /\ TimesProbed("pass3", UrlHttpsB) = 1
    /\ TimesProbed("pass3", UrlFtpC) = 0
    /\ \A c \in ProbesIn("pass3") : c.printed = 2
    /\ \A j \in RecordsOf({UrlHttpA, UrlHttpsB}) :
          result[j].status = "TEMPORARY_ERR"

\* The positions of main, in the order main passes them
PcRank ==
    [scan |-> 0, pass1 |-> 1, pass2 |-> 2, pass3 |-> 3, update |-> 4,
     report |-> 5, done |-> 6, crashed |-> 6]

\* How many times a URL was given to curl
TimesProbedInAll(u) ==
    BagCardinality([c \in {d \in BagToSet(probes) : u \in d.urls} |-> probes[c]])

\* C17: a run makes at most three checks, the first, then the second, then
\* the third; a URL is given to curl at most once in each, so at most three
\* times in a run, and once the third check is over no URL is given to curl
\* again, whatever its status is.
C17_AtMostThreePasses ==
    /\ [](\A c \in BagToSet(probes) :
             /\ c.pass \in {"pass1", "pass2", "pass3"}
             /\ \A u \in c.urls :
                   /\ TimesProbed(c.pass, u) = 1
                   /\ TimesProbedInAll(u) <= 3)
    /\ [][pc' # pc => PcRank[pc'] > PcRank[pc]]_vars
    /\ [][probes' # probes =>
             /\ pc' = pc
             /\ \A c \in BagToSet(probes') :
                   c \notin BagToSet(probes) => c.pass = pc
         ]_vars
    /\ [][PcRank[pc] > 3 => probes' = probes]_vars

\* http://a was given to curl in each of the three checks and is reported
\* REDIRECT, ftp://c in two and is reported TEMPORARY_ERR
C17_Witness ==
    /\ pc = "done"
    /\ TimesProbedInAll(UrlHttpA) = 3
    /\ TimesProbedInAll(UrlFtpC) = 2
    /\ \A j \in RecordsOf({UrlHttpA}) : result[j].status = "REDIRECT"
    /\ \A j \in RecordsOf({UrlFtpC}) : result[j].status = "TEMPORARY_ERR"
    /\ RecordsOf({UrlHttpA}) # {} /\ RecordsOf({UrlFtpC}) # {}

\* The URLs a check of main is made on, given the statuses before it
Flagged(pass) ==
    IF pass = "pass2" THEN WithStatus(checked_urls, "REDIRECT")
    ELSE WithStatus(checked_urls, "TEMPORARY_ERR")

\* C18: the second and the third check change the status of no URL they
\* were not made on, and the map of statuses keeps the keys the first check
\* gave it.
C18_RechecksKeepTheRest ==
    [][(pc \in {"pass2", "pass3", "update", "report", "done", "crashed"}) =>
          /\ DOMAIN checked_urls' = DOMAIN checked_urls
          /\ \A u \in DOMAIN checked_urls :
                (pc \in {"pass2", "pass3"} /\ u \in Flagged(pc))
                    \/ checked_urls'[u] = checked_urls[u]
      ]_vars

\* The second check has changed http://a and the third HTTPS://b; ftp://c
\* was in neither and is UNSUPPORTED (code 200) as the first check found it
C18_Witness ==
    /\ pc = "update"
    /\ DOMAIN checked_urls = {UrlHttpA, UrlHttpsB, UrlFtpC}
    /\ TimesProbed("pass2", UrlHttpA) = 1 /\ TimesProbed("pass3", UrlHttpA) = 0
    /\ TimesProbed("pass2", UrlHttpsB) = 0 /\ TimesProbed("pass3", UrlHttpsB) = 1
    /\ TimesProbedInAll(UrlFtpC) = 1
    /\ checked_urls[UrlHttpA] = "VALID"
    /\ checked_urls[UrlHttpsB] = "REDIRECT"
    /\ checked_urls[UrlFtpC] = "UNSUPPORTED"

C20_EveryRecordResolved ==
    Reported =>
        \A j \in 1..Len(result) :
            LET url == result[j].url
                slash == url \o <<"/">>
                status == result[j].status
            IN  /\ status # "UNCHECKED"
                /\ url \in DOMAIN checked_urls => status = checked_urls[url]
                /\ (url \notin DOMAIN checked_urls /\ url[Len(url)] # "/"
                        /\ slash \in DOMAIN checked_urls)
                       => status = checked_urls[slash]
                /\ (url \notin DOMAIN checked_urls
                        /\ (url[Len(url)] = "/" \/ slash \notin DOMAIN checked_urls))
                       => status = "UNSUPPORTED"

\* HTTPS://b is reported with its own status, http://a with that of http://a/
\* and ftp://c, which has none, UNSUPPORTED
C20_Witness ==
    /\ pc = "done"
    /\ ~skip_url_check
    /\ checked_urls = (UrlHttpsB :> "VALID") @@ (UrlHttpASlash :> "TEMPORARY_ERR")
    /\ \A j \in RecordsOf({UrlHttpsB}) : result[j].status = "VALID"
    /\ \A j \in RecordsOf({UrlHttpA, UrlHttpASlash}) :
          result[j].status = "TEMPORARY_ERR"
    /\ \A j \in RecordsOf({UrlFtpC}) : result[j].status = "UNSUPPORTED"
    /\ Cardinality(UrlsOf(result)) = 4

----------------------------------------------------------------------------
(* Claims about the records, checked under Spec *)

AllUnchecked == \A j \in 1..Len(result) : result[j].status = "UNCHECKED"

\* The records of r are those of result with possibly other statuses.
SameRecordsBut(r) ==
    /\ Len(r) = Len(result)
    /\ \A j \in 1..Len(result) :
          [r[j] EXCEPT !.status = "UNCHECKED"] = [result[j] EXCEPT !.status = "UNCHECKED"]

----------------------------------------------------------------------------
(* Claims about the worker threads and the collecting thread, checked under
   SpecMerge *)

\* The step is the end of check_url_batch in the worker of batch i.
WorkerEnds(i) ==
    /\ i \in 1..Len(futures)
    /\ futures[i].state = "running"
    /\ Len(futures') = Len(futures)
    /\ futures'[i].state = "finished"

\* The step is the turn of the as_completed loop that takes batch i.
LoopTakes(i) ==
    /\ i \in 1..Len(futures)
    /\ futures[i].state = "finished"
    /\ Len(futures') = Len(futures)
    /\ futures'[i].state = "yielded"

\* C22: a worker writes only the dict of its own check_url_batch call: the
\* step that ends batch i changes neither url_results nor the dict of any
\* other batch, and the dict has keys of batch i only. url_results is
\* written only by the as_completed loop, with the dict of a batch that has
\* completed, and every entry it held stays as it was. A dict returned is
\* never changed afterwards. Whatever the interleaving, the map returned is
\* the union of the dicts of all batches.
C22_WorkersWriteOwnMap ==
    /\ [][\A i \in 1..Len(futures) : WorkerEnds(i) =>
             /\ url_results' = url_results
             /\ ppc' = ppc
             /\ \A j \in 1..Len(futures) : j # i => futures'[j] = futures[j]
             /\ DOMAIN futures'[i].results \subseteq batches[i]]_vars
    /\ [][(url_results' # url_results) =>
             /\ ppc = "running"
             /\ \E i \in 1..Len(futures) :
                   /\ LoopTakes(i)
                   /\ ~futures[i].raised
                   /\ DOMAIN url_results' =
                          DOMAIN url_results \cup DOMAIN futures[i].results
                   /\ \A u \in DOMAIN futures[i].results :
                          url_results'[u] = futures[i].results[u]
             /\ \A u \in DOMAIN url_results : url_results'[u] = url_results[u]
         ]_vars
    /\ [][\A i \in 1..Len(futures) :
             (futures[i].state \in {"finished", "yielded"}
                 /\ Len(futures') = Len(futures))
                => /\ futures'[i].results = futures[i].results
                   /\ futures'[i].raised = futures[i].raised]_vars
    /\ [](ppc = "returned" =>
             /\ Len(futures) = Len(batches)
             /\ \A i \in 1..Len(futures) : ~futures[i].raised
             /\ \A u \in DOMAIN url_results :
                   \E i \in 1..Len(futures) :
                       /\ u \in DOMAIN futures[i].results
                       /\ futures[i].results[u] = url_results[u]
             /\ \A i \in 1..Len(futures) :
                   \A u \in DOMAIN futures[i].results :
                       /\ u \in DOMAIN url_results
                       /\ url_results[u] = futures[i].results[u])

\* The dict of the second batch is in the map, the first batch has ended and
\* is not collected yet, and the third is still in its worker.
C22_Witness ==
    /\ Len(futures) = 3
    /\ futures[2].state = "yielded"
    /\ futures[1].state = "finished"
    /\ ~futures[1].raised
    /\ futures[3].state = "running"
    /\ DOMAIN url_results = batches[2]
    /\ \E u, v \in batches[2] :
          url_results[u] = "VALID" /\ url_results[v] = "REDIRECT"

----------------------------------------------------------------------------
(* Claims about the report, checked under Spec *)

Passes == {"pass1", "pass2", "pass3"}

\* Every batch of the check in progress was submitted, has run and has been
\* collected.
AllCollected ==
    /\ Len(futures) = Len(batches)
    /\ \A i \in 1..Len(futures) : futures[i].state = "yielded"

\* The number of records the packages of the tree have
RECURSIVE RecordCount(_)
RecordCount(S) ==
    IF S = {} THEN 0
    ELSE LET p == CHOOSE q \in S : TRUE
         IN  Len(process_package(p, tree[p])) + RecordCount(S \ {p})

\* C23: the report is printed only when every check that was due has
\* returned with all its batches collected and update_url_status has given
\* every record a status. A check is left only when it has returned (or
\* by the exception, after which nothing is printed); the run goes to
\* update_url_status after the first check only when no URL is REDIRECT or
\* TEMPORARY_ERR, after the second only when none is TEMPORARY_ERR. Failed
\* URLs and batches change statuses only: the report has one record for
\* every URL line of the tree, none UNCHECKED.
C23_ReportAfterAll ==
    /\ [][(pc' = "report") =>
             \/ pc = "report"
             \/ pc = "update" /\ ~skip_url_check
             \/ pc = "scan" /\ skip_url_check /\ todo = {}]_vars
    /\ [][(pc' = "update") =>
             \/ pc = "update"
             \/ /\ pc \in Passes
                /\ ppc = "returned"
                /\ AllCollected
                /\ WithStatus(checked_urls', "TEMPORARY_ERR") # {} => pc = "pass3"
                /\ WithStatus(checked_urls', "REDIRECT") # {} => pc # "pass1"
         ]_vars
    /\ [][(pc \in Passes /\ pc' # pc) =>
             \/ ppc = "returned" /\ AllCollected
             \/ ppc = "raised" /\ pc' = "crashed"]_vars
    /\ [][(pc = "crashed") => (pc' = "crashed")]_vars
    /\ [](pc \in {"report", "done"} =>
             /\ cpc = "idle"
             /\ futures = <<>>
             /\ Len(result) = RecordCount(Packages)
             /\ ~skip_url_check =>
                   /\ \A j \in 1..Len(result) : result[j].status # "UNCHECKED"
                   /\ \A u \in RecordUrls : TimesProbed("pass1", u) = 1
                   /\ result = update_url_status(
                          [j \in 1..Len(result) |->
                              [result[j] EXCEPT !.status = "UNCHECKED"]],
                          checked_urls))

\* The report after three checks of which one lost a batch's statuses: some
\* record is VALID and some UNSUPPORTED.
C23_Witness ==
    /\ pc = "report"
    /\ ProbesIn("pass3") # {}
    /\ \E c \in BagToSet(probes) : c.printed < Cardinality(c.urls)
    /\ \E j \in 1..Len(result) : result[j].status = "VALID"
    /\ \E j \in 1..Len(result) :
          Supported(result[j].url) /\ result[j].status = "UNSUPPORTED"

----------------------------------------------------------------------------
(* Claims about the failures that end a run, checked under SpecDown *)

NoNetwork == env.outcomes = "down"

\* Some curl command printed more lines than it was given URLs.
SurplusProbe == \E c \in BagToSet(probes) : c.printed > Cardinality(c.urls)

----------------------------------------------------------------------------
(* Claims about the statuses check_url_batch gives, checked under SpecBatch *)

SuccessCode(u, rc) ==
    \/ u \in HttpUrls /\ rc \in 200..299
    \/ u \in FtpUrls /\ rc \in {250, 257, 350}

\* A response code the table of the URL's scheme has no row for
UnknownCode(u, rc) ==
    \/ u \in HttpUrls /\ rc \notin 200..599
    \/ u \in FtpUrls /\ rc \notin {250, 257, 350, 221, 230} \cup (400..599)
    \/ u \notin HttpUrls \cup FtpUrls

\* C25: a URL is VALID only when its outcome is no timeout, has TLS result
\* 0 and a success code of the URL's own scheme (2xx for http and https;
\* 250, 257, 350 for ftp and ftps). An outcome with response code 0 and a
\* connect time or a connection, or with a code unknown for the scheme, gives
\* UNSUPPORTED. No status check_url_batch gives is UNCHECKED.
C25_ValidOnlyOnSuccess ==
    \A i \in Ended :
        /\ \A k \in Associated(i) :
              LET line == futures[i].lines[k]
                  rc == line.response_code
                  u == KthUrl(batches[i], k)
                  st == futures[i].results[u]
                  plain == ~IsTimeout(line) /\ line.ssl_verify_result = 0
              IN  /\ st = "VALID" => (plain /\ SuccessCode(u, rc))
                  /\ (plain /\ rc = 0
                         /\ (line.time_connect # 0 \/ line.num_connects # 0))
                        => st = "UNSUPPORTED"
                  /\ (plain /\ rc # 0 /\ UnknownCode(u, rc))
                        => st = "UNSUPPORTED"
        /\ \A u \in DOMAIN futures[i].results :
              futures[i].results[u] \in UrlStatus \ {"UNCHECKED"}

\* One batch with 200 for both URLs: VALID for http, UNSUPPORTED for ftp
C25_Witness ==
    \E i \in Ended :
        /\ batches[i] = {UrlHttpA, UrlFtpC}
        /\ futures[i].lines = <<OutcomeLine(200, 0, 1500, 250000, 1),
                                OutcomeLine(200, 0, 1500, 250000, 1)>>
        /\ futures[i].results[UrlFtpC] = "UNSUPPORTED"
        /\ futures[i].results[UrlHttpA] = "VALID"

----------------------------------------------------------------------------
(* Claims about the order of the URLs of a batch, checked under SpecBatch *)

\* The curl commands run for batch i
CommandsOf(i) == {c \in BagToSet(probes) : c.urls = batches[i]}

\* C27: the URLs of a batch are on curl's command line in lexicographic
\* order, each once; the k-th line curl prints gives its status to the k-th
\* URL of that order, one URL for each line; so when curl prints one line
\* for each URL, in the order of its command line, the call does not raise
\* and every URL of the batch has the status of its own line, classified
\* for its own scheme.
C27_KthLineKthUrl ==
    \A i \in Ended :
        /\ CommandsOf(i) # {}
        /\ \A c \in CommandsOf(i) :
              /\ Len(c.args) = Cardinality(batches[i])
              /\ Range(c.args) = batches[i]
              /\ \A j, k \in 1..Len(c.args) :
                    j < k => StrLess(c.args[j], c.args[k])
              /\ \A k \in Associated(i) :
                    futures[i].results[c.args[k]] =
                        line_status(futures[i].lines[k], c.args[k],
                                    c.follow, env.version)
              /\ DOMAIN futures[i].results = {c.args[k] : k \in Associated(i)}
        /\ Len(futures[i].lines) = Cardinality(batches[i]) =>
              /\ ~futures[i].raised
              /\ \A k \in 1..Cardinality(batches[i]) :
                    futures[i].results[KthUrl(batches[i], k)] =
                        line_status(futures[i].lines[k], KthUrl(batches[i], k),
                                    redirect, env.version)

\* HTTPS://b, ftp://c and http://a is the order of the three URLs: the code
\* 530 of the second line is AUTHENTICATE for ftp://c, the 200 of the others
\* is VALID.
C27_Witness ==
    \E i \in Ended :
        /\ batches[i] = {UrlHttpA, UrlHttpsB, UrlFtpC}
        /\ futures[i].lines = <<OutcomeLine(200, 0, 1500, 250000, 1),
                                OutcomeLine(530, 0, 1500, 250000, 1),
                                OutcomeLine(200, 0, 1500, 250000, 1)>>
        /\ futures[i].results =
               (UrlHttpsB :> "VALID") @@ (UrlFtpC :> "AUTHENTICATE")
                   @@ (UrlHttpA :> "VALID")

----------------------------------------------------------------------------
(* Claims about the batches of a call, checked under SpecParts *)

\* C28: the batches check_urls makes are a partition of the URLs it keeps:
\* no URL is in two batches, every URL kept is in one and nothing else is,
\* no batch is empty, every batch but the last has batch_size URLs and the
\* last from 1 to batch_size; fewer than 100 URLs make at most 7 batches;
\* no URL makes no batch, and then no curl command is run and the map
\* returned is empty.
C28_BatchesPartition ==
    /\ [][(cpc = "called" /\ cpc' = "processing") =>
            LET kept == Range(SelectSeq(urls, Supported))
                n == Cardinality(kept)
                q == n \div 5
                batch_size == IF n >= 100 THEN 20 ELSE IF q >= 3 THEN q ELSE 3
                count == Len(batches')
            IN  /\ \A j, k \in 1..count :
                      j # k => batches'[j] \cap batches'[k] = {}
                /\ UNION Range(batches') = kept
                /\ \A k \in 1..count : batches'[k] # {}
                /\ \A k \in 1..(count - 1) :
                      Cardinality(batches'[k]) = batch_size
                /\ count > 0 => Cardinality(batches'[count]) \in 1..batch_size
                /\ n < 100 => count <= 7
                /\ n = 0 => batches' = <<>>
          ]_vars
    /\ []((cpc = "processing" /\ batches = <<>>) =>
             /\ futures = <<>>
             /\ probes = EmptyBag
             /\ url_results = EmptyMap
             /\ ppc \in {"running", "returned"})
    /\ [][(cpc = "processing" /\ batches = <<>> /\ ppc = "running")
             => (ppc' \in {"running", "returned"})]_vars

\* The 19 URLs kept of 21 are in seven batches, six of 3 and one of 1, and
\* the call has returned a status for each.
C28_Witness ==
    /\ ppc = "returned"
    /\ Len(batches) = 7
    /\ \A k \in 1..6 : Cardinality(batches[k]) = 3
    /\ batches[7] = {NumUrl(9)}
    /\ DOMAIN url_results = {NumUrl(i) : i \in 1..19}

----------------------------------------------------------------------------
(* The version-mismatch checker, src/spectree/spec_rpm_mismatch.py *)

Digit == {"0", "1", "2", "3", "4", "5", "6", "7", "8", "9"}

\* \w, on the characters of CodePoints
WordChars ==
    Digit \cup {"F", "H", "P", "S", "T", "_", "a", "b", "c", "d", "e", "f",
                "g", "h", "i", "l", "m", "n", "o", "p", "r", "s", "t", "v",
                "x"}

RpmSuffix == <<".", "s", "r", "c", ".", "r", "p", "m">>
MgaTag == <<".", "m", "g", "a">>

\* s[a..b] is a non-empty run of characters of C
RunOf(s, a, b, C) == a <= b /\ b <= Len(s) /\ \A i \in a..b : s[i] \in C

\* PACKAGE_RE.match(rpm), line 77:
\*   ^(.*)(-[\w\.+~^]+-[\w\.]+\.mga(\d+))(\.\w+)?\.src\.rpm$
\* as <<a, b, c, d>>, the ends of group 1, of the version, of the release
\* and of group 2, in a set that is empty when there is no match.  The
\* matcher backtracks with every quantifier greedy, so that the match it
\* finds is the one with the longest group 1, then the longest version,
\* release and number.
PACKAGE_RE(rpm) ==
    LET n == Len(rpm)
        EndOk(d) ==
            \/ SubSeq(rpm, d + 1, n) = RpmSuffix
            \/ /\ d + 1 <= n - Len(RpmSuffix)
               /\ rpm[d + 1] = "."
               /\ RunOf(rpm, d + 2, n - Len(RpmSuffix), WordChars)
               /\ SubSeq(rpm, n - Len(RpmSuffix) + 1, n) = RpmSuffix
        Ds(c) == {d \in (c + 5)..n :
                     RunOf(rpm, c + 5, d, Digit) /\ EndOk(d)}
        Cs(b) == {c \in (b + 2)..(n - 4) :
                     /\ RunOf(rpm, b + 2, c, WordChars \cup {"."})
                     /\ SubSeq(rpm, c + 1, c + 4) = MgaTag
                     /\ Ds(c) # {}}
        Bs(a) == {b \in (a + 2)..(n - 1) :
                     /\ RunOf(rpm, a + 2, b, WordChars \cup {".", "+"})
                     /\ rpm[b + 1] = "-"
                     /\ Cs(b) # {}}
        As == {a \in 0..(n - 1) : rpm[a + 1] = "-" /\ Bs(a) # {}}
        Most(S) == CHOOSE x \in S : \A y \in S : y <= x
    IN  IF As = {} THEN {}
        ELSE LET a == Most(As)
                 b == Most(Bs(a))
                 c == Most(Cs(b))
             IN  {<<a, b, c, Most(Ds(c))>>}

\* Lines 80-85: group 1, or '' when there is no match
package_name(rpm) ==
    LET match == PACKAGE_RE(rpm)
    IN  IF match = {} THEN <<>>
        ELSE SubSeq(rpm, 1, (CHOOSE m \in match : TRUE)[1])

\* Lines 88-93: group 1 + group 2, or '' when there is no match
rpm_base_name(rpm) ==
    LET match == PACKAGE_RE(rpm)
    IN  IF match = {} THEN <<>>
        ELSE SubSeq(rpm, 1, (CHOOSE m \in match : TRUE)[4])

\* Lines 222-237 of retrieve_all_packages: the files of a listing that end
\* in .rpm and have a package name and a base name
Published(listing) ==
    {i \in 1..Len(listing) :
        /\ Len(listing[i]) >= 4
        /\ SubSeq(listing[i], Len(listing[i]) - 3, Len(listing[i]))
               = <<".", "r", "p", "m">>
        /\ package_name(listing[i]) # <<>>
        /\ rpm_base_name(listing[i]) # <<>>}

\* all_rpms, line 239
all_rpms(listing) == {rpm_base_name(listing[i]) : i \in Published(listing)}

\* all_packages, line 238: a later file of a package replaces an earlier one
all_packages(listing) ==
    [p \in {package_name(listing[i]) : i \in Published(listing)} |->
        LET last == CHOOSE i \in Published(listing) :
                        /\ package_name(listing[i]) = p
                        /\ \A j \in Published(listing) :
                              package_name(listing[j]) = p => j <= i
        IN  rpm_base_name(listing[last])]

\* The dataclasses of lines 265-294
NoSrpmFile(name) == [kind |-> "NoSrpmFile", name |-> name]
ParseError(name) == [kind |-> "ParseError", name |-> name]
VersionMatch(name, srpm_name) ==
    [kind |-> "VersionMatch", name |-> name, srpm_name |-> srpm_name]
VersionMismatch(name, base_name, srpm_name) ==
    [kind |-> "VersionMismatch", name |-> name, base_name |-> base_name,
     srpm_name |-> srpm_name]

\* A mutant of mismatch_process_package: the spec file is read before the
\* package is looked up.
mismatch_process_package_reading_first(package, srpm_name, self) ==
    LET canon_srpm_name == rpm_base_name(srpm_name \o RpmSuffix)
    IN  IF srpm_name = <<>> THEN ParseError(package)
        ELSE IF canon_srpm_name = <<>> THEN ParseError(package)
        ELSE IF package \notin DOMAIN self.all_packages
        THEN NoSrpmFile(package)
        ELSE IF canon_srpm_name \notin self.all_rpms
        THEN VersionMismatch(package, self.all_packages[package],
                             canon_srpm_name)
        ELSE VersionMatch(package, canon_srpm_name)

\* PackageProcessor.process_package, lines 334-360: the result it adds for
\* a package, srpm_name being what get_srpm_name_stub_from_spec returns for
\* its spec file and self the PackageProcessor with its all_rpms and
\* all_packages
mismatch_process_package(package, srpm_name, self) ==
    LET canon_srpm_name == rpm_base_name(srpm_name \o RpmSuffix)
    IN  IF package \notin DOMAIN self.all_packages
        THEN NoSrpmFile(package)
        ELSE IF srpm_name = <<>> THEN ParseError(package)
        ELSE IF canon_srpm_name = <<>> THEN ParseError(package)
        ELSE IF canon_srpm_name \notin self.all_rpms
        THEN VersionMismatch(package, self.all_packages[package],
                             canon_srpm_name)
        ELSE VersionMatch(package, canon_srpm_name)

\* Line 39: int(1.5 * len(os.sched_getaffinity(0)))
PARALLEL_THREADS(cores) == (3 * cores) \div 2

\* Line 624: spec_packages.sort()
spec_packages == sort(list(DOMAIN tree))

\* The worker threads that are inside process_package
Processing ==
    {i \in 1..Len(futures) : futures[i].state \in {"running", "appended"}}

\* ResultCollection._sort, lines 308-310; no two results have one name
sort_by_name(results) ==
    LET names == sort([j \in 1..Len(results) |-> results[j].name])
    IN  [k \in 1..Len(results) |->
            results[CHOOSE j \in 1..Len(results) : results[j].name = names[k]]]

rpmFrame == <<skip_url_check, tree, todo, checked_urls, cpc, urls, redirect,
              batches, url_results, env, probes>>

\* executor.submit(proc.process_package, package), line 545
SubmitPackage ==
    /\ pc = "check"
    /\ Len(futures) < Len(spec_packages)
    /\ futures' = Append(futures, [state |-> "pending",
                                   package |-> spec_packages[Len(futures) + 1]])
    /\ UNCHANGED <<pc, ppc, result, rpmFrame>>

\* A worker thread takes the oldest queued work item.
StartPackage(i) ==
    /\ pc = "check"
    /\ futures[i].state = "pending"
    /\ \A j \in 1..(i - 1) : futures[j].state # "pending"
    /\ Cardinality(Processing) < PARALLEL_THREADS(env.cores)
    /\ futures' = [futures EXCEPT ![i].state = "running"]
    /\ UNCHANGED <<pc, ppc, result, rpmFrame>>

\* process_package up to self.result.append(package), line 305
AddResult(i) ==
    /\ futures[i].state = "running"
    /\ result' = [result EXCEPT !.result =
           Append(@, mismatch_process_package(
                         futures[i].package, tree[futures[i].package], env))]
    /\ futures' = [futures EXCEPT ![i].state = "appended"]
    /\ UNCHANGED <<pc, ppc, rpmFrame>>

\* self.sorted = False, line 306, and the return of process_package
MarkUnsorted(i) ==
    /\ futures[i].state = "appended"
    /\ result' = [result EXCEPT !.sorted = FALSE]
    /\ futures' = [futures EXCEPT ![i].state = "finished"]
    /\ UNCHANGED <<pc, ppc, rpmFrame>>

\* One turn of the as_completed loop, lines 546-550
CollectPackage(i) ==
    /\ pc = "check"
    /\ Len(futures) = Len(spec_packages)
    /\ futures[i].state = "finished"
    /\ futures' = [futures EXCEPT ![i].state = "yielded"]
    /\ UNCHANGED <<pc, ppc, result, rpmFrame>>

\* process_packages returns to main, line 626
ReturnPackages ==
    /\ pc = "check"
    /\ Len(futures) = Len(spec_packages)
    /\ \A i \in 1..Len(futures) : futures[i].state = "yielded"
    /\ pc' = "report"
    /\ ppc' = "returned"
    /\ UNCHANGED <<futures, result, rpmFrame>>

\* Lines 628-631: the report calls matching(), lines 316-320, which sorts
\* the results
MismatchReport ==
    /\ pc = "report"
    /\ ppc = "returned"
    /\ result' = [result |-> sort_by_name(result.result), sorted |-> TRUE]
    /\ pc' = "done"
    /\ ppc' = "reported"
    /\ UNCHANGED <<futures, rpmFrame>>

NextMismatch ==
    \/ SubmitPackage
    \/ \E i \in 1..Len(futures) : StartPackage(i)
    \/ \E i \in 1..Len(futures) : AddResult(i)
    \/ \E i \in 1..Len(futures) : MarkUnsorted(i)
    \/ \E i \in 1..Len(futures) : CollectPackage(i)
    \/ ReturnPackages
    \/ MismatchReport

Mga9 == MgaTag \o <<"9">>

\* What the server lists: a-1-1.mga9.src.rpm, b-2-1.mga9.nonfree.src.rpm
\* and a file that is no source RPM
Listing ==
    << <<"a", "-", "1", "-", "1">> \o Mga9 \o RpmSuffix,
       <<"b", "-", "2", "-", "1">> \o Mga9
           \o <<".", "n", "o", "n", "f", "r", "e", "e">> \o RpmSuffix,
       <<"x", ".", "r", "p", "m">> >>

\* What rpmspec may print for the local packages a, b and c: for a the
\* version on the server, another one, a name with no release tag, or
\* nothing; for b the name with its section, or nothing; c is not on the
\* server.
MismatchTrees ==
    { (<<"a">> :> sa) @@ (<<"b">> :> sb) @@ (<<"c">> :> sc) :
        sa \in { <<"a", "-", "1", "-", "1">> \o Mga9,
                 <<"a", "-", "1", "-", "2">> \o Mga9,
                 <<"a", "-", "1">>,
                 <<>> },
        sb \in { <<"b", "-", "2", "-", "1">> \o Mga9
                     \o <<".", "n", "o", "n", "f", "r", "e", "e">>,
                 <<>> },
        sc \in { <<"c", "-", "1", "-", "1">> \o Mga9, <<>> } }

\* The numbers of CPUs tried
MaxCores == 2

\* main at line 626, with the empty ResultCollection of lines 299-301 and
\* the all_rpms and all_packages main got from retrieve_all_packages (line
\* 609) and gave to the PackageProcessor (line 621)
InitMismatch ==
    /\ pc = "check"
    /\ skip_url_check = FALSE
    /\ tree \in MismatchTrees
    /\ todo = {}
    /\ result = [result |-> <<>>, sorted |-> TRUE]
    /\ checked_urls = EmptyMap
    /\ cpc = "idle"
    /\ urls = <<>>
    /\ redirect = FALSE
    /\ batches = <<>>
    /\ ppc = "running"
    /\ futures = <<>>
    /\ url_results = EmptyMap
    /\ env \in [cores : 1..MaxCores, all_rpms : {all_rpms(Listing)},
                all_packages : {all_packages(Listing)}]
    /\ probes = EmptyBag

SpecMismatch == InitMismatch /\ [][NextMismatch]_vars

----------------------------------------------------------------------------
(* Claims about the version-mismatch checker, checked under SpecMismatch *)

Added == {i \in 1..Len(futures) :
             futures[i].state \in {"appended", "finished", "yielded"}}

ResultsOf(package) ==
    {j \in 1..Len(result.result) : result.result[j].name = package}

\* C29: process_package adds one result for its package, of one of the four
\* kinds: NoSrpmFile when the package is not on the server; else ParseError
\* when rpmspec gives no name stub or the stub has no canonical base name;
\* else VersionMismatch when the canonical name is no base name on the
\* server; else VersionMatch. Whatever the interleaving of the workers, the
\* collection has one result for each package processed and no other, and
\* so one for each package when process_packages has returned.
C29_OneResultPerPackage ==
    /\ \A j \in 1..Len(result.result) :
          LET r == result.result[j]
              stub == tree[r.name]
              canon == rpm_base_name(stub \o RpmSuffix)
              on_server == r.name \in DOMAIN env.all_packages
          IN  /\ r.name \in DOMAIN tree
              /\ r.kind \in {"NoSrpmFile", "ParseError", "VersionMismatch",
                             "VersionMatch"}
              /\ r.kind = "NoSrpmFile" <=> ~on_server
              /\ r.kind = "ParseError" <=>
                    (on_server /\ (stub = <<>> \/ canon = <<>>))
              /\ r.kind = "VersionMismatch" <=>
                    (on_server /\ stub # <<>> /\ canon # <<>>
                        /\ canon \notin env.all_rpms)
              /\ r.kind = "VersionMatch" <=>
                    (on_server /\ stub # <<>> /\ canon # <<>>
                        /\ canon \in env.all_rpms)
    /\ \A i \in 1..Len(futures) :
          Cardinality(ResultsOf(futures[i].package)) =
              IF i \in Added THEN 1 ELSE 0
    /\ Len(result.result) = Cardinality(Added)
    /\ ppc \in {"returned", "reported"} =>
          /\ Len(result.result) = Cardinality(DOMAIN tree)
          /\ \A package \in DOMAIN tree :
                Cardinality(ResultsOf(package)) = 1

\* Three workers added their results in the order c, b, a: c is not on the
\* server, b matches once its section is taken off, a has another release.
C29_Witness ==
    /\ ppc = "returned"
    /\ result.result =
          << NoSrpmFile(<<"c">>),
             VersionMatch(<<"b">>, <<"b", "-", "2", "-", "1">> \o Mga9),
             VersionMismatch(<<"a">>, <<"a", "-", "1", "-", "1">> \o Mga9,
                             <<"a", "-", "1", "-", "2">> \o Mga9) >>
    /\ tree[<<"c">>] = <<>>

----------------------------------------------------------------------------
(* Claims about progress, checked under SpecFair *)

\* The batches a check of SpecFair's trees may have
MaxFairBatches == 2

\* Every batch submitted, of the MaxFairBatches at most, gets a worker and
\* runs to its end.
BatchesComplete ==
    /\ [](Len(futures) <= MaxFairBatches)
    /\ \A i \in 1..MaxFairBatches :
          (Len(futures) >= i /\ futures[i].state \in {"pending", "running"})
              ~> (Len(futures) >= i
                      /\ futures[i].state \in {"finished", "yielded"})

\* C26 as stated: every batch submitted completes, every process_urls
\* returns, and the run reaches the report.
C26_AlwaysReachesReport ==
    /\ BatchesComplete
    /\ (ppc = "running") ~> (ppc = "returned")
    /\ <>(pc \in {"report", "done"})

\* C26, amended: nothing blocks for ever: every batch submitted completes,
\* every process_urls returns or raises, and the run reaches the report or
\* is ended by the exception of a batch, which only a curl command that
\* printed more lines than it had URLs raises.
C26_NothingBlocks ==
    /\ BatchesComplete
    /\ (ppc = "running") ~> (ppc \in {"returned", "raised"})
    /\ <>(pc \in {"report", "done", "crashed"})
    /\ [](pc = "crashed" => SurplusProbe)

\* The report after three checks, the first of two batches, with a URL
\* that was refused in each
C26_Witness ==
    /\ pc = "report"
    /\ \E c \in ProbesIn("pass1") : Cardinality(c.urls) = 1
    /\ ProbesIn("pass3") # {}
    /\ \E j \in 1..Len(result) : result[j].status = "TEMPORARY_ERR"

====
